---- MODULE Spec2Model ----
(***************************************************************************)
(* Order-lifecycle and profit-reconciliation engine of the DOGE grid bot.  *)
(*                                                                         *)
(*   profit_split.py    chunked profit splitting, BNB market purchase      *)
(*   profit_watcher.py  FIFO ledger over the exchange's trade stream       *)
(*   main.py            buy -> sell pairing on fill, trading state file    *)
(*                                                                         *)
(* Money is fixed point: one unit is 1/UnitsPerUsd of a dollar.            *)
(***************************************************************************)
EXTENDS Integers, Sequences, FiniteSets, TLC

VARIABLES
    \* ---- profit_split.py -------------------------------------------------
    split_file,     \* split_state.json
    now,            \* time.time(), in seconds
    result,         \* the dict returned by the last handle_realized_profit
    bnb_orders,     \* create_order calls made for BNB_SYMBOL
    split_call,     \* the last profit_split call, its inputs and what it did
    fed_total,      \* sum of the positive profits fed to handle_realized_profit
    \* ---- profit_watcher.py: fifo_match_sell on its own -------------------
    fifo_in,        \* the arguments: inventory, sell_price, qty
    fifo_out,       \* what the call returned and the inventory it left
    \* ---- profit_watcher.py: the watcher process --------------------------
    trades,         \* the account's trades on the exchange, oldest first
    w_pc,           \* "stopped", or "live" inside live_tail_loop
    w_st,           \* the dict st: last_trade_id and inventory
    w_file,         \* profit_watcher_state.json
    w_stats,        \* runtime_stats.json: cumulative profit and sell-trade count
    w_call,         \* the last step of the watcher and the trades it folded
    w_faults,       \* failed calls and process stops so far
    \* ---- main.py: the trading loop --------------------------------------
    orders,         \* the orders of TRADING_PAIR on the exchange, oldest first
    t_pc,           \* "running" inside the main trading loop, or "stopped"
    t_state,        \* the dict state of run_trading_bot
    t_file,         \* state.json
    t_call,         \* the last step of the bot and the sells it placed
    t_faults,       \* failed order placements and state writes so far
    stop_flag,      \* stop_flag of run_trading_bot
    \* ---- utils_stats.py, grid levels, recenter.py, state files -----------
    stats_call,     \* the last call of utils_stats and its arguments
    grid,           \* arguments and result of the last level generation
    rc,             \* recenter.py: the clock, the state dict, the last call
    io,             \* a state file being written, and what a reader sees
    \* ---- profit_split.py called from two threads ------------------------
    th              \* split_state.json and each thread's position and copy

split_vars == <<split_file, now, result, bnb_orders, split_call, fed_total>>
fifo_vars == <<fifo_in, fifo_out>>
watcher_vars == <<trades, w_pc, w_st, w_file, w_stats, w_call, w_faults>>
tracker_vars == <<orders, t_pc, t_state, t_file, t_call, t_faults, stop_flag>>
ext_vars == <<stats_call, grid, rc, io, th>>

vars == <<split_file, now, result, bnb_orders, split_call, fed_total,
          fifo_in, fifo_out,
          trades, w_pc, w_st, w_file, w_stats, w_call, w_faults,
          orders, t_pc, t_state, t_file, t_call, t_faults, stop_flag,
          stats_call, grid, rc, io, th>>

Min(a, b) == IF a <= b THEN a ELSE b

\* ---------------------------------------------------------------------------
\* Bounds of the model
\* ---------------------------------------------------------------------------
UnitsPerUsd == 2        \* resolution of the fixed-point money grid
MaxFedUsd == 13         \* no more profit than this is fed to the splitter
MaxClock == 1           \* the clock stops after this many ticks
ExchangeMinCostUsd == 5 \* limits.cost.min the exchange reports for BNB_SYMBOL
BnbLotPrice == 3        \* last price of one amount-precision lot of BNB, in units
BnbLotPriceHigh == 50   \* a lot price no pending amount of the model reaches
MaxLots == 3            \* lots in an inventory given to fifo_match_sell
MaxLotQty == 2          \* quantity of a lot, in amount steps
MaxSellQty == 5         \* quantity of a sell, in amount steps
MaxTrades == 3          \* trades the exchange executes
FirstTradeId == 9       \* id of the first of them; ids then count up
MaxWatcherFaults == 1   \* failed calls and process stops of the watcher
MaxBuys == 1            \* buy orders of the grid open on the exchange
MaxTrackerFaults == 1   \* failed order placements and state writes of the bot
MaxCount == 4           \* largest value of a counter of runtime_stats.json

\* ---------------------------------------------------------------------------
\* profit_split.py
\* ---------------------------------------------------------------------------
SPLIT_CHUNK_USD == 4
SPLIT_RATIO_NUM == 1
SPLIT_RATIO_DEN == 2
MIN_COST_CACHE_DURATION == 60
MIN_COST_FALLBACK_USD == 10
ClockStep == 30

SplitState ==
    [ split_accumulator_usd |-> 0,
      bnb_pending_usd       |-> 0,
      reinvest_pool_usd     |-> 0,
      total_sent_to_bnb_usd |-> 0,
      total_reinvested_usd  |-> 0,
      last_update_ts        |-> 0,
      last_action           |-> "",
      min_cost_cache_usd    |-> 0,
      min_cost_cache_ts     |-> 0 ]

\* A state file is [kind |-> "absent"] or [kind |-> "json", data |-> <state>].
Absent == [kind |-> "absent"]
Json(d) == [kind |-> "json", data |-> d]

_load_state(file) == IF file.kind = "json" THEN file.data ELSE SplitState

_save_state_StaleTimestamp(state, t) == Json(state)

\* Lines 158-162
_save_state(state, t) == Json([state EXCEPT !.last_update_ts = t])

\* What a call of the exchange client does: it raises, or it returns a value.
Raises == [raises |-> TRUE, value |-> 0]
Returns(v) == [raises |-> FALSE, value |-> v]

\* answer: what exchange_client.market(symbol) gives: it raises, or returns
\* limits.cost.min in units (0: no minimum is reported).
_get_minimum_cost(file, t, answer) ==
    LET state == _load_state(file)
        fallback == MIN_COST_FALLBACK_USD * UnitsPerUsd
    IN  IF /\ state.min_cost_cache_usd > 0
           /\ t - state.min_cost_cache_ts < MIN_COST_CACHE_DURATION
        THEN [value |-> state.min_cost_cache_usd, file |-> file, queried |-> FALSE]
        ELSE LET value == IF answer.raises \/ answer.value = 0
                               THEN fallback ELSE answer.value
             IN  [value   |-> value,
                  file    |-> _save_state([state EXCEPT !.min_cost_cache_usd = value,
                                                        !.min_cost_cache_ts = t], t),
                  queried |-> TRUE]

ResultDefault == [chunks |-> 0, bnb_bought_usd |-> 0, reinvest_added_usd |-> 0]

chunk_size == SPLIT_CHUNK_USD * UnitsPerUsd

CompleteChunks_AtMostOne(acc) == Min(1, acc \div chunk_size)

\* Line 232: int(state.split_accumulator_usd // chunk_size)
CompleteChunks(acc) == acc \div chunk_size

Remainder_OfOneChunk(acc, complete_chunks) ==
    IF complete_chunks > 0 THEN acc - chunk_size ELSE acc

\* Line 233
Remainder(acc, complete_chunks) == acc - complete_chunks * chunk_size

\* Lines 227-257: accumulate the profit and move whole chunks to the pools.
Chunked(state0, profit_usd) ==
    LET acc == state0.split_accumulator_usd + profit_usd
        complete_chunks == CompleteChunks(acc)
        remainder == Remainder(acc, complete_chunks)
        bnb_per_chunk == (chunk_size * SPLIT_RATIO_NUM) \div SPLIT_RATIO_DEN
        reinvest_per_chunk == chunk_size - bnb_per_chunk
        total_to_bnb == bnb_per_chunk * complete_chunks
        total_to_reinvest == reinvest_per_chunk * complete_chunks
    IN  IF complete_chunks > 0
        THEN [state  |-> [state0 EXCEPT
                            !.bnb_pending_usd = @ + total_to_bnb,
                            !.reinvest_pool_usd = @ + total_to_reinvest,
                            !.split_accumulator_usd = remainder,
                            !.last_action = "chunked"],
              result |-> [ResultDefault EXCEPT !.chunks = complete_chunks,
                                               !.reinvest_added_usd = total_to_reinvest]]
        ELSE [state  |-> [state0 EXCEPT !.split_accumulator_usd = acc,
                                        !.last_action = "accumulate"],
              result |-> ResultDefault]

PurchaseSucceeded_KeepsPending(state, usd_to_spend) ==
    [state EXCEPT !.total_sent_to_bnb_usd = @ + usd_to_spend,
                  !.last_action = "BNB market buy"]

\* Lines 289-293: create_order returned.
PurchaseSucceeded(state, usd_to_spend) ==
    [state EXCEPT !.total_sent_to_bnb_usd = @ + usd_to_spend,
                  !.bnb_pending_usd = 0,
                  !.last_action = "BNB market buy"]

PurchaseFailed_ResetsPending(state) ==
    [state EXCEPT !.bnb_pending_usd = 0, !.last_action = "BNB buy failed"]

\* Lines 294-295: fetch_ticker, the division or create_order raised.
PurchaseFailed(state) == [state EXCEPT !.last_action = "BNB buy failed"]

\* Lines 262-295: the market buy.  ticker is what fetch_ticker does: it raises,
\* or returns the last price of one amount-precision lot of BNB, in units
\* (a price of 0 makes the division raise); order_ok says whether create_order
\* returns.  orders are the create_order calls made, outcome names the branch.
BuyBnb(state, minimum_cost, ticker, order_ok) ==
    IF state.bnb_pending_usd >= minimum_cost
    THEN LET usd_to_spend == state.bnb_pending_usd
         IN  IF ticker.raises \/ ticker.value = 0
             THEN [state |-> PurchaseFailed(state), bought |-> 0, orders |-> <<>>,
                   outcome |-> "ticker_failed"]
             ELSE LET precise_quantity == usd_to_spend \div ticker.value
                      order == [qty |-> precise_quantity, price |-> ticker.value,
                                usd |-> usd_to_spend, ok |-> order_ok]
                  IN  IF precise_quantity > 0
                      THEN IF order_ok
                           THEN [state |-> PurchaseSucceeded(state, usd_to_spend),
                                 bought |-> usd_to_spend, orders |-> <<order>>,
                                 outcome |-> "bought"]
                           ELSE [state |-> PurchaseFailed(state), bought |-> 0,
                                 orders |-> <<order>>, outcome |-> "order_failed"]
                      ELSE [state |-> state, bought |-> 0, orders |-> <<>>,
                            outcome |-> "zero_quantity"]
    ELSE [state |-> state, bought |-> 0, orders |-> <<>>, outcome |-> "below_minimum"]

\* What the exchange may answer to the calls of one invocation.
MinCostAnswers == {Raises, Returns(0), Returns(ExchangeMinCostUsd * UnitsPerUsd)}
TickerAnswers == {Raises, Returns(BnbLotPrice), Returns(BnbLotPriceHigh)}
Profits == {0, 1, SPLIT_CHUNK_USD * UnitsPerUsd, (17 * UnitsPerUsd) \div 2}
PullAmounts == {0 - 1, 0, 3, MaxFedUsd * UnitsPerUsd}

handle_realized_profit(profit_usd, answer, ticker, order_ok) ==
    IF profit_usd <= 0
    THEN /\ result' = ResultDefault
         /\ split_call' = [op |-> "handle", profit |-> profit_usd, minimum_cost |-> 0,
                           queried |-> FALSE, outcome |-> "no_profit",
                           prev_failed |-> FALSE,
                           queried_at |-> split_call.queried_at]
         /\ UNCHANGED <<split_file, bnb_orders, fed_total>>
    ELSE LET ch  == Chunked(_load_state(split_file), profit_usd)
             mc  == _get_minimum_cost(split_file, now, answer)
             buy == BuyBnb(ch.state, mc.value, ticker, order_ok)
         IN  /\ split_file' = _save_state(buy.state, now)
             /\ result' = [ch.result EXCEPT !.bnb_bought_usd = buy.bought]
             /\ bnb_orders' = bnb_orders \o buy.orders
             /\ fed_total' = fed_total + profit_usd
             /\ split_call' = [op |-> "handle", profit |-> profit_usd,
                               minimum_cost |-> mc.value, queried |-> mc.queried,
                               outcome |-> buy.outcome,
                               prev_failed |-> _load_state(split_file).last_action
                                                   = "BNB buy failed",
                               queried_at |-> IF mc.queried THEN now
                                              ELSE split_call.queried_at]

\* One invocation, over every profit and every behaviour of the exchange calls
\* that the invocation makes (a call that is not made has no answer to choose).
HandleRealizedProfit ==
    /\ \E profit_usd \in Profits :
          /\ fed_total + profit_usd <= MaxFedUsd * UnitsPerUsd
          /\ IF profit_usd <= 0
             THEN handle_realized_profit(profit_usd, Raises, Raises, TRUE)
             ELSE \E answer \in MinCostAnswers :
                    IF Chunked(_load_state(split_file), profit_usd).state.bnb_pending_usd
                         < _get_minimum_cost(split_file, now, answer).value
                    THEN handle_realized_profit(profit_usd, answer, Raises, TRUE)
                    ELSE \E ticker \in TickerAnswers :
                           IF ticker.raises
                           THEN handle_realized_profit(profit_usd, answer, ticker, TRUE)
                           ELSE \E order_ok \in BOOLEAN :
                                  handle_realized_profit(profit_usd, answer, ticker,
                                                         order_ok)
    /\ UNCHANGED now
    /\ UNCHANGED <<fifo_vars, watcher_vars, tracker_vars, ext_vars>>

AmountToPull_Unclamped(state, max_amount_usd) == max_amount_usd

\* Line 318
AmountToPull(state, max_amount_usd) == Min(state.reinvest_pool_usd, max_amount_usd)

pull_reinvestment_funds_ForgetsTotal(max_amount_usd) ==
    LET state == _load_state(split_file)
        amount_to_pull == IF max_amount_usd <= 0 THEN 0
                          ELSE AmountToPull(state, max_amount_usd)
    IN  /\ split_call' = [op |-> "pull", max |-> max_amount_usd,
                          pulled |-> amount_to_pull,
                          queried_at |-> split_call.queried_at]
        /\ IF amount_to_pull > 0
           THEN split_file' = _save_state(
                    [state EXCEPT !.reinvest_pool_usd = @ - amount_to_pull,
                                  !.last_action = "reinvest pulled"], now)
           ELSE UNCHANGED split_file

\* Lines 301-326
pull_reinvestment_funds(max_amount_usd) ==
    IF max_amount_usd <= 0
    THEN /\ split_call' = [op |-> "pull", max |-> max_amount_usd, pulled |-> 0,
                           queried_at |-> split_call.queried_at]
         /\ UNCHANGED split_file
    ELSE LET state == _load_state(split_file)
             amount_to_pull == AmountToPull(state, max_amount_usd)
         IN  /\ split_call' = [op |-> "pull", max |-> max_amount_usd,
                               pulled |-> amount_to_pull,
                               queried_at |-> split_call.queried_at]
             /\ IF amount_to_pull > 0
                THEN split_file' = _save_state(
                         [state EXCEPT !.reinvest_pool_usd = @ - amount_to_pull,
                                       !.total_reinvested_usd = @ + amount_to_pull,
                                       !.last_action = "reinvest pulled"], now)
                ELSE UNCHANGED split_file

PullReinvestmentFunds ==
    /\ \E max_amount_usd \in PullAmounts : pull_reinvestment_funds(max_amount_usd)
    /\ UNCHANGED <<now, result, bnb_orders, fed_total>>
    /\ UNCHANGED <<fifo_vars, watcher_vars, tracker_vars, ext_vars>>

\* time.time() advances between calls.
Tick ==
    /\ now < MaxClock * ClockStep
    /\ now' = now + ClockStep
    /\ split_call' = [op |-> "tick", queried_at |-> split_call.queried_at]
    /\ UNCHANGED <<split_file, result, bnb_orders, fed_total>>
    /\ UNCHANGED <<fifo_vars, watcher_vars, tracker_vars, ext_vars>>

SplitInit ==
    /\ split_file = Absent
    /\ now = 0
    /\ result = ResultDefault
    /\ bnb_orders = <<>>
    /\ split_call = [op |-> "init", queried_at |-> 0 - 1]
    /\ fed_total = 0

\* ---------------------------------------------------------------------------
\* profit_watcher.py: the FIFO ledger
\* Quantities are in amount steps, prices in price ticks; a realized profit is
\* in units of 1/FEE_RATE_DEN of (tick * step), which keeps the fee exact.
\* ---------------------------------------------------------------------------
FEE_RATE_NUM == 1
FEE_RATE_DEN == 1000

realized_profit_on_match_SellSideFee(buy_price, sell_price, qty) ==
    (sell_price - buy_price) * qty * FEE_RATE_DEN - (sell_price * qty) * FEE_RATE_NUM

realized_profit_on_match(buy_price, sell_price, qty) ==
    LET gross == (sell_price - buy_price) * qty
        fees == (buy_price * qty + sell_price * qty) * FEE_RATE_NUM
    IN  gross * FEE_RATE_DEN - fees

\* Lines 152-159: the while loop, one iteration per call.
RECURSIVE fifo_loop(_, _, _, _)
fifo_loop(inventory, sell_price, remaining, realized) ==
    IF remaining > 0 /\ Len(inventory) > 0
    THEN LET lot == inventory[1]
             take == Min(remaining, lot.qty)
             left == lot.qty - take
         IN  fifo_loop(IF left <= 0 THEN Tail(inventory)
                                    ELSE <<[lot EXCEPT !.qty = left]>> \o Tail(inventory),
                       sell_price, remaining - take,
                       realized + realized_profit_on_match(lot.price, sell_price, take))
    ELSE [inventory |-> inventory, remaining |-> remaining, realized |-> realized]

\* The inventory argument is mutated in place: the result carries what is left.
fifo_match_sell(inventory, sell_price, qty) ==
    LET out == fifo_loop(inventory, sell_price, qty, 0)
    IN  [realized |-> out.realized, matched |-> qty - out.remaining,
         inventory |-> out.inventory]

LotPrices == {100, 110}
SellPrices == {90, 120}
Lots == [qty : 1..MaxLotQty, price : LotPrices]
Inventories == UNION {[1..n -> Lots] : n \in 0..MaxLots}

FifoIdle ==
    /\ fifo_in = [inventory |-> <<>>, sell_price |-> 0, qty |-> 0]
    /\ fifo_out = [done |-> FALSE]

FifoInit ==
    /\ fifo_in \in [inventory : Inventories, sell_price : SellPrices, qty : 1..MaxSellQty]
    /\ fifo_out = [done |-> FALSE]

FifoMatchSell ==
    /\ ~fifo_out.done
    /\ LET r == fifo_match_sell(fifo_in.inventory, fifo_in.sell_price, fifo_in.qty)
       IN  fifo_out' = [done |-> TRUE, realized |-> r.realized, matched |-> r.matched,
                        inventory |-> r.inventory]
    /\ UNCHANGED <<fifo_in, split_vars, watcher_vars, tracker_vars, ext_vars>>

\* ---------------------------------------------------------------------------
\* profit_watcher.py: the watcher process
\* ---------------------------------------------------------------------------
None == 0 - 1      \* Python's None where an id is expected

\* str(n) of a trade id, as its sequence of decimal digits.
RECURSIVE Str(_)
Str(n) == IF n < 10 THEN <<n>> ELSE Append(Str(n \div 10), n % 10)

\* Python's s < t on strings: by the first differing character, a proper
\* prefix being the smaller.
RECURSIVE StrLess(_, _)
StrLess(s, t) ==
    IF Len(t) = 0 THEN FALSE
    ELSE IF Len(s) = 0 THEN TRUE
    ELSE IF s[1] # t[1] THEN s[1] < t[1]
    ELSE StrLess(Tail(s), Tail(t))

IsNewTrade_Numeric(tid, last_id) == last_id = None \/ tid > last_id

\* Line 284: last_id is None or tid > str(last_id), tid = str(t["id"])
IsNewTrade(tid, last_id) == last_id = None \/ StrLess(Str(last_id), Str(tid))

\* Lines 166-167: the sort key (timestamp, str(id)).
KeyLess(t, u) == t.ts < u.ts \/ (t.ts = u.ts /\ StrLess(Str(t.id), Str(u.id)))

RECURSIVE SortByKey(_)
SortByKey(S) ==
    IF S = {} THEN <<>>
    ELSE LET first == CHOOSE t \in S : \A u \in S \ {t} : KeyLess(t, u)
         IN  <<first>> \o SortByKey(S \ {first})

\* Every trade of the model is of PAIR.
normalize_trades(ts) == SortByKey({ts[i] : i \in 1..Len(ts)})

\* ok: whether fetch_my_trades returns; since: startTime, 0 for none.
fetch_trades_window(ok, since) ==
    IF ok THEN normalize_trades(SelectSeq(trades, LAMBDA t : t.ts >= since))
    ELSE <<>>

\* Lines 196-213, one trade per call; inv is st["inventory"], mutated in place.
RECURSIVE process_trades_loop(_, _, _, _, _)
process_trades_loop(ts, inv, realized_total, inc_sell_trades, last_id) ==
    IF Len(ts) = 0
    THEN [inventory |-> inv, realized |-> realized_total,
          sell_trades |-> inc_sell_trades, last_id |-> last_id]
    ELSE LET t == ts[1]
         IN  IF t.amount <= 0 \/ t.price <= 0
             THEN process_trades_loop(Tail(ts), inv, realized_total, inc_sell_trades, t.id)
             ELSE IF t.side = "buy"
             THEN process_trades_loop(Tail(ts),
                      Append(inv, [qty |-> t.amount, price |-> t.price]),
                      realized_total, inc_sell_trades, t.id)
             ELSE LET m == fifo_match_sell(inv, t.price, t.amount)
                  IN  process_trades_loop(Tail(ts), m.inventory,
                          realized_total + m.realized,
                          IF m.matched > 0 THEN inc_sell_trades + 1 ELSE inc_sell_trades,
                          t.id)

process_trades_sequence(ts, st) ==
    process_trades_loop(ts, st.inventory, 0, 0, st.last_trade_id)

_init_state == [last_trade_id |-> None, inventory |-> <<>>]

read_state(file) == IF file.kind = "json" THEN file.data ELSE _init_state

\* utils_stats._defaults: what read_stats returns when there is no file
_defaults ==
    [cumulative_profit_usd |-> 0, sell_trades_count |-> 0, actual_splits_count |-> 0]

add_actual_splits_AsSellTrades(stats, inc_actual_splits) ==
    [stats EXCEPT !.sell_trades_count = @ + inc_actual_splits]

\* utils_stats.add_actual_splits(inc_actual_splits)
add_actual_splits(stats, inc_actual_splits) ==
    [stats EXCEPT !.actual_splits_count = @ + inc_actual_splits]

\* utils_stats.add_realized_profit(realized, inc_sell_trades=sell_trades)
add_realized_profit(stats, delta_usd, inc_sell_trades) ==
    [stats EXCEPT !.cumulative_profit_usd = @ + delta_usd,
                  !.sell_trades_count = @ + inc_sell_trades]

Ids(ts) == {ts[i].id : i \in 1..Len(ts)}

\* One iteration of the while loop of live_tail_loop.  fetch_ok, stats_ok and
\* write_ok say whether fetch_my_trades, add_realized_profit and write_state
\* return; an exception ends the iteration in the handlers of lines 312-317.
live_tail_iteration(fetch_ok, stats_ok, write_ok) ==
    LET all_trades == fetch_trades_window(fetch_ok, 0)
        last_id == w_st.last_trade_id
        new_trades == SelectSeq(all_trades, LAMBDA t : IsNewTrade(t.id, last_id))
        r == process_trades_sequence(new_trades, w_st)
        report == r.realized # 0 \/ r.sell_trades > 0
        call == [op |-> "live", fetched |-> Ids(all_trades), last_id |-> last_id,
                 lots_before |-> Len(w_st.inventory),
                 folded |-> {}, handed |-> 0, raised |-> FALSE]
    IN  IF Len(all_trades) = 0 \/ Len(new_trades) = 0
        THEN /\ w_call' = call
             /\ UNCHANGED <<w_st, w_file, w_stats>>
        ELSE IF report /\ ~stats_ok
        THEN /\ w_st' = [w_st EXCEPT !.inventory = r.inventory]
             /\ w_call' = [call EXCEPT !.folded = Ids(new_trades), !.raised = TRUE]
             /\ UNCHANGED <<w_file, w_stats>>
        ELSE /\ w_stats' = IF report
                           THEN add_realized_profit(w_stats, r.realized, r.sell_trades)
                           ELSE w_stats
             /\ w_st' = [last_trade_id |-> r.last_id, inventory |-> r.inventory]
             /\ w_file' = IF write_ok THEN Json(w_st') ELSE w_file
             /\ w_call' = [call EXCEPT !.folded = Ids(new_trades),
                                       !.handed = IF r.realized > 0 THEN r.realized ELSE 0,
                                       !.raised = ~write_ok]

Faults(oks) == Cardinality({i \in 1..Len(oks) : ~oks[i]})

LiveTailIteration ==
    /\ w_pc = "live"
    /\ \E fetch_ok, stats_ok, write_ok \in BOOLEAN :
          /\ w_faults + Faults(<<fetch_ok, stats_ok, write_ok>>) <= MaxWatcherFaults
          /\ w_faults' = w_faults + Faults(<<fetch_ok, stats_ok, write_ok>>)
          /\ live_tail_iteration(fetch_ok, stats_ok, write_ok)
    /\ UNCHANGED <<trades, w_pc>>
    /\ UNCHANGED <<split_vars, fifo_vars, tracker_vars, ext_vars>>

\* do_backfill(st, since_ms); an exception of add_realized_profit or
\* write_state is not caught and ends the process.
do_backfill(st, since, fetch_ok, stats_ok, write_ok) ==
    LET ts == fetch_trades_window(fetch_ok, since)
        r == process_trades_sequence(ts, st)
        report == r.realized # 0 \/ r.sell_trades > 0
        done == [last_trade_id |-> r.last_id, inventory |-> r.inventory]
        call == [op |-> "backfill", fetched |-> Ids(ts), last_id |-> st.last_trade_id,
                 lots_before |-> Len(st.inventory),
                 folded |-> Ids(ts), handed |-> 0, raised |-> FALSE]
    IN  IF Len(ts) = 0
        THEN [st |-> st, file |-> w_file, stats |-> w_stats, call |-> call]
        ELSE IF report /\ ~stats_ok
        THEN [st |-> st, file |-> w_file, stats |-> w_stats,
              call |-> [call EXCEPT !.raised = TRUE]]
        ELSE [st    |-> done,
              file  |-> IF write_ok THEN Json(done) ELSE w_file,
              stats |-> IF report
                        THEN add_realized_profit(w_stats, r.realized, r.sell_trades)
                        ELSE w_stats,
              call  |-> [call EXCEPT !.handed = IF r.realized > 0 THEN r.realized ELSE 0,
                                     !.raised = ~write_ok]]

\* Lines 263-270: with no checkpoint, start from the most recent trade.
bootstrap_last_trade_id(st, file) ==
    LET recent == fetch_trades_window(TRUE, 0)
    IN  IF st.last_trade_id = None /\ Len(recent) > 0
        THEN [st   |-> [st EXCEPT !.last_trade_id = recent[Len(recent)].id],
              file |-> Json([st EXCEPT !.last_trade_id = recent[Len(recent)].id])]
        ELSE [st |-> st, file |-> file]

\* main() without --backfill, up to the first iteration of the live loop.
WatcherStart ==
    /\ w_pc = "stopped"
    /\ LET b == bootstrap_last_trade_id(read_state(w_file), w_file)
       IN  /\ w_st' = b.st
           /\ w_file' = b.file
           /\ w_call' = [op |-> "start", fetched |-> {}, last_id |-> b.st.last_trade_id,
                         lots_before |-> Len(b.st.inventory),
                         folded |-> {}, handed |-> 0, raised |-> FALSE]
    /\ w_pc' = "live"
    /\ UNCHANGED <<trades, w_stats, w_faults>>
    /\ UNCHANGED <<split_vars, fifo_vars, tracker_vars, ext_vars>>

\* main() with --backfill, up to the first iteration of the live loop.
WatcherStartBackfill ==
    /\ w_pc = "stopped"
    /\ \E since \in {0} \cup {trades[i].ts : i \in 1..Len(trades)},
          fetch_ok, stats_ok, write_ok \in BOOLEAN :
          LET d == do_backfill(read_state(w_file), since, fetch_ok, stats_ok, write_ok)
              b == bootstrap_last_trade_id(d.st, d.file)
          IN  /\ w_faults + Faults(<<fetch_ok, stats_ok, write_ok>>) <= MaxWatcherFaults
              /\ w_faults' = w_faults + Faults(<<fetch_ok, stats_ok, write_ok>>)
              /\ w_stats' = d.stats
              /\ w_call' = d.call
              /\ IF d.call.raised
                 THEN /\ w_pc' = "stopped"
                      /\ w_st' = _init_state
                      /\ w_file' = d.file
                 ELSE /\ w_pc' = "live"
                      /\ w_st' = b.st
                      /\ w_file' = b.file
    /\ UNCHANGED trades
    /\ UNCHANGED <<split_vars, fifo_vars, tracker_vars, ext_vars>>

\* The process is killed; the dict st is gone with it.
WatcherStop ==
    /\ w_pc = "live"
    /\ w_faults < MaxWatcherFaults
    /\ w_faults' = w_faults + 1
    /\ w_pc' = "stopped"
    /\ w_st' = _init_state
    /\ w_call' = [op |-> "stop", fetched |-> {}, last_id |-> None, lots_before |-> 0,
                  folded |-> {}, handed |-> 0, raised |-> FALSE]
    /\ UNCHANGED <<trades, w_file, w_stats>>
    /\ UNCHANGED <<split_vars, fifo_vars, tracker_vars, ext_vars>>

\* The exchange executes a trade of the account.
TradePrice(side) == IF side = "buy" THEN 100 ELSE 120
TradeAmount(side) == IF side = "buy" THEN 2 ELSE 1

ExchangeTrade ==
    /\ Len(trades) < MaxTrades
    /\ \E side \in {"buy", "sell"}, same_ms \in BOOLEAN :
          LET last_ts == IF Len(trades) = 0 THEN 0 ELSE trades[Len(trades)].ts
          IN  /\ same_ms => Len(trades) > 0
              /\ trades' = Append(trades,
                     [id |-> FirstTradeId + Len(trades),
                      ts |-> IF same_ms THEN last_ts ELSE last_ts + 1,
                      side |-> side, price |-> TradePrice(side),
                      amount |-> TradeAmount(side)])
    /\ UNCHANGED <<w_pc, w_st, w_file, w_stats, w_call, w_faults>>
    /\ UNCHANGED <<split_vars, fifo_vars, tracker_vars, ext_vars>>

WatcherInit ==
    /\ trades = <<>>
    /\ w_pc = "stopped"
    /\ w_st = _init_state
    /\ w_file = Absent
    /\ w_stats = _defaults
    /\ w_call = [op |-> "init", fetched |-> {}, last_id |-> None, lots_before |-> 0,
                 folded |-> {}, handed |-> 0, raised |-> FALSE]
    /\ w_faults = 0

\* ---------------------------------------------------------------------------
\* main.py: buy -> sell pairing in the trading loop
\* Prices are in price ticks, quantities in amount steps, money in tick * step.
\* ---------------------------------------------------------------------------
GRID_STEP_PERCENT == 1
FEE_BUFFER_NUM == 1
FEE_BUFFER_DEN == 1000
\* load_market_precision's defaults: tick 0.00001, step 1, minimum notional 1.0
price_tick == 1
amount_step == 1
min_cost == 100000
\* One USD in units of tick * step
TickStepsPerUsd == 100000

\* (x / size).to_integral_value(ROUND_FLOOR) * size, for x = num / den
RoundDown(num, den, size) == (num \div (den * size)) * size

round_price_down(num, den, tick_size) ==
    IF tick_size <= 0 THEN num \div den ELSE RoundDown(num, den, tick_size)

round_amount_down(num, den, step_size) ==
    IF step_size <= 0 THEN num \div den ELSE RoundDown(num, den, step_size)

\* Python's a or b on numbers
Or(a, b) == IF a # 0 THEN a ELSE b

TradingState ==
    [ processed_buys      |-> <<>>,
      child_sells         |-> <<>>,
      buy_fills           |-> <<>>,
      sell_fills          |-> <<>>,
      realized_profit_usd |-> 0 ]

load_trading_state(file) == IF file.kind = "json" THEN file.data ELSE TradingState

\* A dict is a function on its keys; d[k] = v adds or replaces.
Put(d, k, v) == [x \in DOMAIN d \cup {k} |-> IF x = k THEN v ELSE d[x]]
Elems(seq) == {seq[i] : i \in 1..Len(seq)}

AlreadyProcessed_Never(state, buy_order_id) == FALSE

\* Line 513: buy_order_id in state["processed_buys"]
AlreadyProcessed(state, buy_order_id) == buy_order_id \in Elems(state.processed_buys)

\* Lines 522-526, for the tick size that load_market_precision found
TargetPriceAt(average_price, tick_size) ==
    round_price_down(average_price * (100 + GRID_STEP_PERCENT), 100, tick_size)

TargetPrice(average_price) == TargetPriceAt(average_price, price_tick)

\* Lines 528-539
SellQuantity(filled_amount, target_price) ==
    LET sell_quantity == round_amount_down(filled_amount * (FEE_BUFFER_DEN - FEE_BUFFER_NUM),
                                           FEE_BUFFER_DEN, amount_step)
    IN  IF sell_quantity * target_price < min_cost
        THEN round_amount_down(min_cost * (FEE_BUFFER_DEN + FEE_BUFFER_NUM),
                               target_price * FEE_BUFFER_DEN, amount_step)
        ELSE sell_quantity

\* Lines 509-542: whether the loop body reaches the placement of a sell.
BuyToPair(state, order) ==
    /\ order.side = "buy"
    /\ order.status = "closed"
    /\ ~AlreadyProcessed(state, order.id)
    /\ Or(order.filled, order.amount) > 0
    /\ Or(order.average, order.price) > 0
    /\ SellQuantity(Or(order.filled, order.amount),
                    TargetPrice(Or(order.average, order.price))) > 0

AfterFailedPlacement_MarksProcessed(acc, order) ==
    [acc EXCEPT !.state.processed_buys = Append(@, order.id)]

\* Lines 559-560: the except branch logs and leaves everything as it was.
AfterFailedPlacement(acc, order) == acc

RecordPair_WithoutFill(state, order, sell_order_id) ==
    [state EXCEPT !.processed_buys = Append(@, order.id),
                  !.child_sells = Put(@, order.id, sell_order_id)]

\* Lines 552-556: the three records of a buy whose sell was placed.
RecordPair(state, order, sell_order_id) ==
    [state EXCEPT
       !.processed_buys = Append(@, order.id),
       !.child_sells = Put(@, order.id, sell_order_id),
       !.buy_fills = Put(@, order.id, [price  |-> Or(order.average, order.price),
                                       amount |-> Or(order.filled, order.amount)])]

\* Lines 508-560, one order per call.  acc carries the dict state, the state
\* file and the sell orders created on the exchange so far in this poll;
\* place_fails and save_fails are the orders at which create_order and the
\* write of the state file raise.
RECURSIVE process_filled_buy_orders(_, _, _, _)
process_filled_buy_orders(fetched, acc, place_fails, save_fails) ==
    IF Len(fetched) = 0 THEN acc
    ELSE LET order == fetched[1]
             rest == Tail(fetched)
             filled_amount == Or(order.filled, order.amount)
             average_price == Or(order.average, order.price)
             target_price == TargetPrice(average_price)
             sell_quantity == SellQuantity(filled_amount, target_price)
             sell_order_id == Len(orders) + Len(acc.placed) + 1
             state2 == RecordPair(acc.state, order, sell_order_id)
             sell == [id |-> sell_order_id, side |-> "sell", status |-> "open",
                      amount |-> sell_quantity, filled |-> 0,
                      price |-> target_price, average |-> 0, for_buy |-> order.id]
         IN  IF ~BuyToPair(acc.state, order)
             THEN process_filled_buy_orders(rest, acc, place_fails, save_fails)
             ELSE IF order.id \in place_fails
             THEN process_filled_buy_orders(rest, AfterFailedPlacement(acc, order),
                                            place_fails, save_fails)
             ELSE process_filled_buy_orders(rest,
                      [state  |-> state2,
                       file   |-> IF order.id \in save_fails THEN acc.file
                                                             ELSE Json(state2),
                       placed |-> Append(acc.placed, sell)],
                      place_fails, save_fails)

SellToRecord_Reobserved(state, order) ==
    /\ order.side = "sell"
    /\ order.status = "closed"
    /\ Or(order.filled, order.amount) > 0
    /\ Or(order.average, order.price) > 0

\* Lines 568-579
SellToRecord(state, order) ==
    /\ order.side = "sell"
    /\ order.status = "closed"
    /\ order.id \notin DOMAIN state.sell_fills
    /\ Or(order.filled, order.amount) > 0
    /\ Or(order.average, order.price) > 0

\* Lines 582-586: the first key of child_sells whose value is the sell's id;
\* the keys of child_sells are in the order of processed_buys.  0: None.
RECURSIVE ParentBuy(_, _, _)
ParentBuy(keys, child_sells, sell_order_id) ==
    IF Len(keys) = 0 THEN 0
    ELSE IF keys[1] \in DOMAIN child_sells /\ child_sells[keys[1]] = sell_order_id
    THEN keys[1]
    ELSE ParentBuy(Tail(keys), child_sells, sell_order_id)

PairProfit_SellQuantity(state, order) ==
    LET parent_buy_id == ParentBuy(state.processed_buys, state.child_sells, order.id)
    IN  IF parent_buy_id # 0 /\ parent_buy_id \in DOMAIN state.buy_fills
        THEN (Or(order.average, order.price) - state.buy_fills[parent_buy_id].price)
               * Or(order.filled, order.amount)
        ELSE 0

PairProfit_OfUnrecordedPair(state, order) ==
    LET parent_buy_id == ParentBuy(state.processed_buys, state.child_sells, order.id)
    IN  IF parent_buy_id # 0 /\ parent_buy_id \in DOMAIN state.buy_fills
        THEN LET buy_data == state.buy_fills[parent_buy_id]
             IN  (Or(order.average, order.price) - buy_data.price)
                   * Min(Or(order.filled, order.amount), buy_data.amount)
        ELSE (Or(order.average, order.price) - orders[order.for_buy].average)
               * Or(order.filled, order.amount)

\* Lines 588-595
PairProfit(state, order) ==
    LET parent_buy_id == ParentBuy(state.processed_buys, state.child_sells, order.id)
    IN  IF parent_buy_id # 0 /\ parent_buy_id \in DOMAIN state.buy_fills
        THEN LET buy_data == state.buy_fills[parent_buy_id]
             IN  (Or(order.average, order.price) - buy_data.price)
                   * Min(Or(order.filled, order.amount), buy_data.amount)
        ELSE 0

\* Lines 567-619, one order per call.  profit_split has no on_realized_profit,
\* so the hasattr test of line 614 fails and nothing is handed to the splitter.
RECURSIVE process_filled_sell_orders(_, _, _)
process_filled_sell_orders(fetched, acc, save_fails) ==
    IF Len(fetched) = 0 THEN acc
    ELSE LET order == fetched[1]
             rest == Tail(fetched)
             profit_usd == PairProfit(acc.state, order)
             state1 == [acc.state EXCEPT
                          !.sell_fills = Put(@, order.id,
                              [price |-> Or(order.average, order.price),
                               amount |-> Or(order.filled, order.amount)])]
             state2 == IF profit_usd > 0
                       THEN [state1 EXCEPT !.realized_profit_usd = @ + profit_usd]
                       ELSE state1
         IN  IF ~SellToRecord(acc.state, order)
             THEN process_filled_sell_orders(rest, acc, save_fails)
             ELSE process_filled_sell_orders(rest,
                      [acc EXCEPT !.state = state2,
                                  !.file = IF order.id \in save_fails THEN acc.file
                                                                      ELSE Json(state2)],
                      save_fails)

\* The record of a step of the bot: what the step was, whether fetch_orders
\* returned and how it failed, the buys a sell was placed for, the sells whose
\* fill was recorded, and the orders at which create_order and the write of
\* state.json raised.
Call(op) ==
    [op |-> op, fetched |-> FALSE, error |-> "none", paired |-> {},
     recorded |-> {}, place_failed |-> {}, save_failed |-> {}]

\* What fetch_orders can do: return, or raise a transient error (timeout, rate
\* limit) or ccxt.AuthenticationError; line 489 catches Exception for both.
FetchOutcomes == {"none", "transient", "auth"}

\* Line 486: fetch_orders(symbol, limit=50) returns the most recent orders of
\* the symbol, at most 50 of them.
FetchLimit == 50
fetch_orders(all) ==
    IF Len(all) <= FetchLimit THEN all
    ELSE SubSeq(all, Len(all) - FetchLimit + 1, Len(all))

\* Lines 509 and 567: the fetched orders that pass the first test of the loop
\* over them; the loop goes on to the next order at every other one.
ClosedOrders(fetched, side) ==
    SelectSeq(fetched, LAMBDA order : order.side = side /\ order.status = "closed")

handle_order_fills_and_create_sells_OnStaleOrders(fetch, place_fails, save_fails) ==
    LET start == [state |-> t_state, file |-> t_file, placed |-> <<>>]
        bought == process_filled_buy_orders(ClosedOrders(fetch_orders(orders), "buy"),
                                            start, place_fails, save_fails)
        sold == process_filled_sell_orders(ClosedOrders(fetch_orders(orders), "sell"),
                                           bought, save_fails)
    IN  /\ t_state' = sold.state
        /\ t_file' = sold.file
        /\ orders' = orders \o sold.placed
        /\ t_call' = [Call("poll") EXCEPT
                        !.fetched = (fetch = "none"),
                        !.error = fetch,
                        !.paired = {sold.placed[i].for_buy : i \in 1..Len(sold.placed)},
                        !.recorded = DOMAIN sold.state.sell_fills \ DOMAIN t_state.sell_fills,
                        !.place_failed = place_fails,
                        !.save_failed = save_fails]

\* Lines 473-497: one call of the handler by the main loop.
handle_order_fills_and_create_sells(fetch, place_fails, save_fails) ==
    LET start == [state |-> t_state, file |-> t_file, placed |-> <<>>]
        bought == process_filled_buy_orders(ClosedOrders(fetch_orders(orders), "buy"),
                                            start, place_fails, save_fails)
        sold == process_filled_sell_orders(ClosedOrders(fetch_orders(orders), "sell"),
                                           bought, save_fails)
    IN  IF fetch # "none"
        THEN /\ t_call' = [Call("poll") EXCEPT !.error = fetch]
             /\ UNCHANGED <<orders, t_state, t_file>>
        ELSE /\ t_state' = sold.state
             /\ t_file' = sold.file
             /\ orders' = orders \o sold.placed
             /\ t_call' = [Call("poll") EXCEPT
                             !.fetched = TRUE,
                             !.paired = {sold.placed[i].for_buy : i \in 1..Len(sold.placed)},
                             !.recorded = DOMAIN sold.state.sell_fills
                                            \ DOMAIN t_state.sell_fills,
                             !.place_failed = place_fails,
                             !.save_failed = save_fails]

\* The orders at which a call of this poll can fail.
Fetched == {fetch_orders(orders)[i] : i \in 1..Len(fetch_orders(orders))}
BuysToPair == {order.id : order \in {o \in Fetched : BuyToPair(t_state, o)}}
SellsToRecord == {order.id : order \in {o \in Fetched : SellToRecord(t_state, o)}}

LoopContinues_Always(flag) == TRUE

\* Line 697: while not stop_flag
LoopContinues(flag) == ~flag

\* Lines 685-688: the handler of SIGINT and SIGTERM sets the flag and returns.
signal_handler(flag) == TRUE

\* One iteration of the main trading loop (lines 697-703).  The handler's
\* except clauses return to the loop, whatever fetch_orders raised.  A signal
\* that arrives during the iteration runs signal_handler and the iteration
\* goes on.
Poll ==
    /\ t_pc = "running"
    /\ LoopContinues(stop_flag)
    /\ \/ \E fetch \in FetchOutcomes \ {"none"} :
            /\ UNCHANGED t_faults
            /\ handle_order_fills_and_create_sells(fetch, {}, {})
       \/ \E place_fails \in SUBSET BuysToPair :
          \E save_fails \in SUBSET ((BuysToPair \ place_fails) \cup SellsToRecord) :
            LET n == Cardinality(place_fails) + Cardinality(save_fails)
            IN  /\ t_faults + n <= MaxTrackerFaults
                /\ t_faults' = t_faults + n
                /\ handle_order_fills_and_create_sells("none", place_fails, save_fails)
    /\ \E signalled \in BOOLEAN :
          stop_flag' = IF signalled THEN signal_handler(stop_flag) ELSE stop_flag
    /\ UNCHANGED t_pc
    /\ UNCHANGED <<split_vars, fifo_vars, watcher_vars, ext_vars>>

\* SIGINT or SIGTERM delivered during time.sleep (line 703).
Signal ==
    /\ t_pc = "running"
    /\ ~stop_flag
    /\ stop_flag' = signal_handler(stop_flag)
    /\ t_call' = Call("signal")
    /\ UNCHANGED <<orders, t_pc, t_state, t_file, t_faults>>
    /\ UNCHANGED <<split_vars, fifo_vars, watcher_vars, ext_vars>>

\* Lines 697 and 705: the loop test fails and run_trading_bot returns.
TrackerExit ==
    /\ t_pc = "running"
    /\ ~LoopContinues(stop_flag)
    /\ t_pc' = "exited"
    /\ t_state' = TradingState
    /\ t_call' = Call("exit")
    /\ UNCHANGED <<orders, t_file, t_faults, stop_flag>>
    /\ UNCHANGED <<split_vars, fifo_vars, watcher_vars, ext_vars>>

\* The process is killed between two polls; the dict state is gone with it.
TrackerStop ==
    /\ t_pc = "running"
    /\ t_pc' = "stopped"
    /\ t_state' = TradingState
    /\ stop_flag' = FALSE
    /\ t_call' = Call("stop")
    /\ UNCHANGED <<orders, t_file, t_faults>>
    /\ UNCHANGED <<split_vars, fifo_vars, watcher_vars, ext_vars>>

\* run_trading_bot up to the main loop: lines 676 and 682.
TrackerStart ==
    /\ t_pc = "stopped"
    /\ t_pc' = "running"
    /\ t_state' = load_trading_state(t_file)
    /\ stop_flag' = FALSE
    /\ t_call' = Call("start")
    /\ UNCHANGED <<orders, t_file, t_faults>>
    /\ UNCHANGED <<split_vars, fifo_vars, watcher_vars, ext_vars>>

\* The grid's buy orders, as bootstrap_buy_orders placed them: one size for
\* all levels.
BuyPrice(i) == 20000 - 200 * (i - 1)
BuyAmounts == {1, 5, 25}

\* The exchange fills an open buy order.
ExchangeFillBuy ==
    /\ \E i \in 1..Len(orders) :
          /\ orders[i].side = "buy"
          /\ orders[i].status = "open"
          /\ orders' = [orders EXCEPT ![i].status = "closed",
                                      ![i].filled = orders[i].amount,
                                      ![i].average = orders[i].price]
    /\ UNCHANGED <<t_pc, t_state, t_file, t_call, t_faults, stop_flag>>
    /\ UNCHANGED <<split_vars, fifo_vars, watcher_vars, ext_vars>>

\* The exchange fills an open sell order at its limit price.
ExchangeFillSell ==
    /\ \E i \in 1..Len(orders) :
          /\ orders[i].side = "sell"
          /\ orders[i].status = "open"
          /\ orders' = [orders EXCEPT ![i].status = "closed",
                                      ![i].filled = orders[i].amount,
                                      ![i].average = orders[i].price]
    /\ UNCHANGED <<t_pc, t_state, t_file, t_call, t_faults, stop_flag>>
    /\ UNCHANGED <<split_vars, fifo_vars, watcher_vars, ext_vars>>

\* The account places a further order on the symbol and cancels it: a buy of a
\* later bootstrap (line 680 places up to seven at every start of the bot).
MaxOrders == 52
Cancelled(id) ==
    [id |-> id, side |-> "buy", status |-> "canceled", amount |-> 1, filled |-> 0,
     price |-> BuyPrice(2), average |-> 0, for_buy |-> 0]
OtherOrder ==
    /\ Len(orders) < MaxOrders
    /\ orders' = Append(orders, Cancelled(Len(orders) + 1))
    /\ UNCHANGED <<t_pc, t_state, t_file, t_call, t_faults, stop_flag>>
    /\ UNCHANGED <<split_vars, fifo_vars, watcher_vars, ext_vars>>

\* An iteration of the main loop during which no signal arrives.
PollRunning == Poll /\ ~stop_flag'

\* An iteration in which fetch_orders, every placement and every write succeed.
CleanPoll ==
    /\ PollRunning
    /\ t_call'.fetched
    /\ t_call'.place_failed = {}
    /\ t_call'.save_failed = {}

TrackerIdle ==
    /\ orders = <<>>
    /\ t_pc = "stopped"
    /\ t_state = TradingState
    /\ t_file = Absent
    /\ t_call = Call("init")
    /\ t_faults = 0
    /\ stop_flag = FALSE

\* The bot has started for the first time and its buy orders are open.
TrackerInit ==
    /\ orders \in {[i \in 1..MaxBuys |->
                       [id |-> i, side |-> "buy", status |-> "open", amount |-> a,
                        filled |-> 0, price |-> BuyPrice(i), average |-> 0,
                        for_buy |-> 0]] : a \in BuyAmounts}
    /\ t_pc = "running"
    /\ t_state = TradingState
    /\ t_file = Absent
    /\ t_call = Call("init")
    /\ t_faults = 0
    /\ stop_flag = FALSE

\* ---------------------------------------------------------------------------
\* utils_stats.py: the counters of runtime_stats.json
\* ---------------------------------------------------------------------------
StatDeltas == {0 - 1, 0, 2}
StatIncrements == {0, 1, 2}

\* A caller adds a realized profit and a number of sell trades.
AddRealizedProfit ==
    /\ \E delta_usd \in StatDeltas, inc_sell_trades \in StatIncrements :
          /\ w_stats.sell_trades_count + inc_sell_trades <= MaxCount
          /\ w_stats.cumulative_profit_usd + delta_usd \in (0 - MaxCount)..(2 * MaxCount)
          /\ w_stats' = add_realized_profit(w_stats, delta_usd, inc_sell_trades)
          /\ stats_call' = [op |-> "add_realized_profit", delta_usd |-> delta_usd,
                            n |-> inc_sell_trades]
    /\ UNCHANGED <<trades, w_pc, w_st, w_file, w_call, w_faults>>
    /\ UNCHANGED <<split_vars, fifo_vars, tracker_vars, grid, rc, io, th>>

\* A caller adds a number of processed chunks.
AddActualSplits ==
    /\ \E inc_actual_splits \in StatIncrements :
          /\ w_stats.actual_splits_count + inc_actual_splits <= MaxCount
          /\ w_stats' = add_actual_splits(w_stats, inc_actual_splits)
          /\ stats_call' = [op |-> "add_actual_splits", delta_usd |-> 0,
                            n |-> inc_actual_splits]
    /\ UNCHANGED <<trades, w_pc, w_st, w_file, w_call, w_faults>>
    /\ UNCHANGED <<split_vars, fifo_vars, tracker_vars, grid, rc, io, th>>

StatsIdle == stats_call = [op |-> "init", delta_usd |-> 0, n |-> 0]

\* ---------------------------------------------------------------------------
\* main.py: compute_grid_levels
\* A Decimal is modelled in fixed point: prices are integers in units of the
\* last digit the arithmetic keeps, a multiplier is an integer in units of
\* 1 / DecimalResolution, and every result is rounded half-even to its unit
\* as the decimal context rounds it to its precision.
\* ---------------------------------------------------------------------------
DecimalResolution == 10
\* Decimal("1e-18") of line 374, in price units
LevelTolerance == 2

\* round(num / den), ties to even, for num >= 0 and den > 0
RoundHalfEven(num, den) ==
    LET q == num \div den
        r == num % den
    IN  IF 2 * r < den THEN q
        ELSE IF 2 * r > den THEN q + 1
        ELSE IF q % 2 = 0 THEN q ELSE q + 1

\* Line 370: Decimal("1.0") + step_percent / Decimal("100")
Multiplier(step_percent) ==
    DecimalResolution + RoundHalfEven(step_percent * DecimalResolution, 100)

\* Lines 374-376.  The loop ends when current_price passes the upper bound;
\* it never ends when the product of line 376 is current_price again.
RECURSIVE grid_loop(_, _, _, _)
grid_loop(levels, current_price, high_price, multiplier) ==
    IF ~(current_price <= high_price + LevelTolerance)
    THEN [levels |-> levels, diverges |-> FALSE]
    ELSE LET next == RoundHalfEven(current_price * multiplier, DecimalResolution)
         IN  IF next = current_price
             THEN [levels |-> Append(levels, current_price), diverges |-> TRUE]
             ELSE grid_loop(Append(levels, current_price), next, high_price, multiplier)

\* Lines 379-380
AppendUpperBound(levels, high_price) ==
    IF levels[Len(levels)] < high_price THEN Append(levels, high_price) ELSE levels

\* Lines 353-382
compute_grid_levels(low_price, high_price, step_percent) ==
    IF low_price <= 0 \/ high_price <= 0 \/ high_price <= low_price
    THEN [levels |-> <<>>, diverges |-> FALSE]
    ELSE LET loop == grid_loop(<<>>, low_price, high_price, Multiplier(step_percent))
         IN  IF loop.diverges THEN loop
             ELSE [levels |-> AppendUpperBound(loop.levels, high_price),
                   diverges |-> FALSE]

LowPrices == {0, 10, 11, 12, 20}
HighPrices == {5, 12, 20, 21, 22, 23, 40}
\* In percent; the first is too small to change the multiplier.
StepPercents == {1, 10, 50, 100}

ComputeGridLevels ==
    /\ \E low_price \in LowPrices, high_price \in HighPrices,
          step_percent \in StepPercents :
          grid' = [op |-> "compute_grid_levels", low |-> low_price, high |-> high_price,
                   step |-> step_percent,
                   out |-> compute_grid_levels(low_price, high_price, step_percent)]
    /\ UNCHANGED <<split_vars, fifo_vars, watcher_vars, tracker_vars>>
    /\ UNCHANGED <<stats_call, rc, io, th>>

GridIdle == grid = [op |-> "init"]
\* ---------------------------------------------------------------------------
\* recenter.py: _edge_hit, need_recenter
\* Prices and times are integers; a percentage of the width is compared
\* after multiplying both sides by 100.
\* ---------------------------------------------------------------------------
DwellSeconds == 2
RcClockStart == 1
MaxRcClock == 5

\* Python's "x or y" where x is None or a number
NoneOr(x, y) == IF x = None \/ x = 0 THEN y ELSE x

\* Lines 3-9
_edge_hit(last_price, lower, upper, edge_pct) ==
    LET width == upper - lower
    IN  IF width <= 0 THEN FALSE
        ELSE \/ 100 * last_price <= 100 * lower + width * edge_pct
             \/ 100 * last_price >= 100 * upper - width * edge_pct

\* Lines 28-33: the value of dwell_state["hit_since"] after the first criterion
HitSince(dwell_state, hit, time_now) ==
    IF hit
    THEN IF dwell_state.hit_since = None THEN time_now ELSE dwell_state.hit_since
    ELSE None

Abs(x) == IF x < 0 THEN 0 - x ELSE x

\* Lines 11-43.  time_now is what time.time() returns during the call; the
\* result carries the dictionary as the call leaves it.
need_recenter(last_price, lower, upper, dwell_state, time_now, dwell_seconds, edge_pct, center_drift_pct_of_width) ==
    LET time_used == NoneOr(dwell_state.now, time_now)
        hit       == _edge_hit(last_price, lower, upper, edge_pct)
        hit_since == HitSince(dwell_state, hit, time_used)
        edge_ok   == hit /\ (time_used - NoneOr(hit_since, time_used)) >= dwell_seconds
        width     == upper - lower
        drift_ok  ==
            /\ center_drift_pct_of_width # None
            /\ width > 0
            /\ 100 * Abs(2 * last_price - (lower + upper))
                   >= 2 * width * center_drift_pct_of_width
    IN  [ result      |-> edge_ok \/ drift_ok,
          dwell_state |-> [now |-> time_used, hit_since |-> hit_since] ]

RcLower == 100
RcUpper == 200
RcPrices == {102, 108, 150, 192}
\* Line 16: the default of edge_pct
DefaultEdgePct == 90
EdgePcts == {10, DefaultEdgePct}
DriftPcts == {None, 45}

\* A monitoring loop calls need_recenter with the dictionary it keeps between
\* calls; before a call it either stores the current time under "now"
\* (refresh) or passes the dictionary as the last call left it.
NeedRecenter ==
    /\ \E dt \in {0, 1, DwellSeconds}, last_price \in RcPrices, edge_pct \in EdgePcts,
          drift \in DriftPcts, refresh \in BOOLEAN :
          /\ rc.clock + dt <= MaxRcClock
          /\ LET time_now == rc.clock + dt
                 passed   == IF refresh THEN [rc.dwell_state EXCEPT !.now = time_now]
                             ELSE rc.dwell_state
                 hit      == _edge_hit(last_price, RcLower, RcUpper, edge_pct)
                 r        == need_recenter(last_price, RcLower, RcUpper, passed, time_now,
                                           DwellSeconds, edge_pct, drift)
             IN  rc' = [ op          |-> "need_recenter",
                         clock       |-> time_now,
                         dwell_state |-> r.dwell_state,
                         timer_start |-> IF ~hit THEN None
                                         ELSE IF rc.timer_start = None THEN time_now
                                         ELSE rc.timer_start,
                         args        |-> [last_price |-> last_price, lower |-> RcLower,
                                          upper |-> RcUpper, edge_pct |-> edge_pct,
                                          drift |-> drift, refresh |-> refresh],
                         result      |-> r.result ]
    /\ UNCHANGED <<split_vars, fifo_vars, watcher_vars, tracker_vars>>
    /\ UNCHANGED <<stats_call, grid, io, th>>

\* ---------------------------------------------------------------------------
\* recenter.py: recenter_bounds
\* A float is modelled as an integer number of quanta that keeps FloatBits
\* significant bits; every operation rounds its exact result to the nearest
\* such number, ties to even.  The inputs are even, so that halving is exact
\* as it is in binary floating point.
\* ---------------------------------------------------------------------------
FloatBits == 3
\* 1e-9 of lines 50-51, in quanta
MinPositive == 2

Max(a, b) == IF a >= b THEN a ELSE b

RECURSIVE Pow2(_)
Pow2(n) == IF n = 0 THEN 1 ELSE 2 * Pow2(n - 1)

\* The spacing of the floats around x >= 0
RECURSIVE Ulp(_)
Ulp(x) == IF x < Pow2(FloatBits) THEN 1 ELSE 2 * Ulp(x \div 2)

Float(x) ==
    IF x >= 0 THEN RoundHalfEven(x, Ulp(x)) * Ulp(x)
    ELSE 0 - RoundHalfEven(0 - x, Ulp(0 - x)) * Ulp(0 - x)

recenter_bounds_Unclamped(around_price, lower, upper) ==
    LET width     == Max(Float(upper - lower), MinPositive)
        new_lower == Float(around_price - width \div 2)
    IN  [new_lower |-> new_lower, new_upper |-> Float(new_lower + width)]

\* Lines 45-53
recenter_bounds(around_price, lower, upper) ==
    LET width     == Max(Float(upper - lower), MinPositive)
        new_lower == Max(MinPositive, Float(around_price - width \div 2))
    IN  [new_lower |-> new_lower, new_upper |-> Float(new_lower + width)]

\* Even numbers of quanta that are floats
RcFloats == {Float(2 * k) : k \in 0..12}
RcLowers == {Float(k) : k \in {0, 2, 4, 12}}
RcUppers == {Float(k) : k \in {2, 4, 6, 16, 24}}

\* Lines 444-470 of bootstrap_buy_orders, one level per call.  acc carries
\* budget_remaining, usdt_free and the orders placed so far; place_fails are
\* the levels at which create_order raises.
MaxBootstrapOrders == 7
RECURSIVE bootstrap_loop(_, _, _, _, _)
bootstrap_loop(levels, acc, base_order_usd, min_notional, place_fails) ==
    IF Len(levels) = 0 THEN acc
    ELSE IF acc.budget_remaining < base_order_usd \/ acc.usdt_free < base_order_usd
    THEN acc
    ELSE LET level == levels[1]
             price == round_price_down(level, 1, price_tick)
             quantity == round_amount_down(base_order_usd, level, amount_step)
             scaled == IF quantity * price < min_notional
                       THEN round_amount_down(min_notional * (FEE_BUFFER_DEN + FEE_BUFFER_NUM),
                                              price * FEE_BUFFER_DEN, amount_step)
                       ELSE quantity
         IN  IF scaled <= 0 \/ level \in place_fails
             THEN bootstrap_loop(Tail(levels), acc, base_order_usd, min_notional,
                                 place_fails)
             ELSE bootstrap_loop(Tail(levels),
                      [budget_remaining |-> acc.budget_remaining - base_order_usd,
                       usdt_free |-> acc.usdt_free - scaled * price,
                       placed |-> Append(acc.placed, [quantity |-> scaled,
                                                      price |-> price])],
                      base_order_usd, min_notional, place_fails)

\* Lines 414-416: the levels at or below the price, the nearest first.
RECURSIVE BuyLevels(_, _)
BuyLevels(grid_levels, current_price) ==
    IF Len(grid_levels) = 0 THEN <<>>
    ELSE IF grid_levels[1] <= current_price
    THEN Append(BuyLevels(Tail(grid_levels), current_price), grid_levels[1])
    ELSE BuyLevels(Tail(grid_levels), current_price)

FirstN(seq, n) == IF Len(seq) <= n THEN seq ELSE SubSeq(seq, 1, n)

\* Lines 405-470.  current_price and balance are None when fetch_ticker and
\* fetch_balance raise; live is MODE == "LIVE".
bootstrap_buy_orders(grid_levels, current_price, live, balance, base_order_usd, max_cycle_usd, min_notional, place_fails) ==
    LET buy_levels == BuyLevels(grid_levels, current_price)
        usdt_free == IF live THEN balance ELSE max_cycle_usd
        estimated_need == Min(Len(buy_levels), MaxBootstrapOrders) * base_order_usd
    IN  IF current_price = None \/ (live /\ balance = None) THEN <<>>
        ELSE IF usdt_free < Min(estimated_need, max_cycle_usd) THEN <<>>
        ELSE bootstrap_loop(FirstN(buy_levels, MaxBootstrapOrders),
                            [budget_remaining |-> max_cycle_usd, usdt_free |-> usdt_free,
                             placed |-> <<>>],
                            base_order_usd, min_notional, place_fails).placed

\* Nine grid levels from 0.184 to 0.2; the market at 0.2 and at 0.185;
\* balances of 3, 35 and 100 USDT; BASE_ORDER_USD 5; MAX_CYCLE_USD 40 and 12;
\* minimum notional 1 and 10 USDT.
BootstrapLevels == [i \in 1..9 |-> 18200 + 200 * i]
TickerPrices == {None, 18500, 20000}
Balances == {None, 3 * TickStepsPerUsd, 35 * TickStepsPerUsd, 100 * TickStepsPerUsd}
BaseOrders == {5 * TickStepsPerUsd}
CycleBudgets == {12 * TickStepsPerUsd, 40 * TickStepsPerUsd}
MinNotionals == {min_cost, 10 * min_cost}
BootstrapBuyOrders ==
    /\ \E current_price \in TickerPrices, live \in BOOLEAN, balance \in Balances,
          base_order_usd \in BaseOrders, max_cycle_usd \in CycleBudgets,
          min_notional \in MinNotionals,
          place_fails \in {{}, {BootstrapLevels[9]}, {BootstrapLevels[8]}} :
          grid' = [op |-> "bootstrap_buy_orders", current_price |-> current_price,
                   live |-> live, balance |-> balance,
                   base_order_usd |-> base_order_usd, max_cycle_usd |-> max_cycle_usd,
                   min_notional |-> min_notional, place_fails |-> place_fails,
                   out |-> bootstrap_buy_orders(BootstrapLevels, current_price, live,
                                                balance, base_order_usd, max_cycle_usd,
                                                min_notional, place_fails)]
    /\ UNCHANGED <<split_vars, fifo_vars, watcher_vars, tracker_vars>>
    /\ UNCHANGED <<stats_call, rc, io, th>>

\* grid_engine.geom_levels.  A float is an integer number of quanta and the
\* product of line 6 is rounded to the nearest one; the tolerance of line 4,
\* upper * 1e-9, is less than a quantum.
LevelCap == 5000
RECURSIVE geom_loop(_, _, _, _)
geom_loop(lvls, p, upper, spacing_pct) ==
    IF ~(p <= upper) THEN lvls
    ELSE IF Len(lvls) + 1 > LevelCap THEN Append(lvls, p)
    ELSE geom_loop(Append(lvls, p), RoundHalfEven(p * (100 + spacing_pct), 100),
                   upper, spacing_pct)

geom_levels(lower, upper, spacing_pct) == geom_loop(<<>>, lower, upper, spacing_pct)

GeomLowers == {100, 200}
GeomUppers == {50, 121, 150, 200}
SpacingPcts == {10, 50}
GeomLevels ==
    /\ \E lower \in GeomLowers, upper \in GeomUppers, spacing_pct \in SpacingPcts :
          grid' = [op |-> "geom_levels", lower |-> lower, upper |-> upper,
                   spacing_pct |-> spacing_pct,
                   out |-> geom_levels(lower, upper, spacing_pct)]
    /\ UNCHANGED <<split_vars, fifo_vars, watcher_vars, tracker_vars>>
    /\ UNCHANGED <<stats_call, rc, io, th>>

\* Lines 522-526 on markets of several tick sizes: fills at 0.00005, 0.2 and
\* 0.2003, ticks of 0.00001, 0.0001 and 0.01.
FillPrices == {5, 20000, 20030}
TickSizes == {1, 10, 1000}
SellTarget ==
    /\ \E average_price \in FillPrices, tick_size \in TickSizes :
          grid' = [op |-> "sell_target", average_price |-> average_price,
                   tick_size |-> tick_size,
                   out |-> TargetPriceAt(average_price, tick_size)]
    /\ UNCHANGED <<split_vars, fifo_vars, watcher_vars, tracker_vars>>
    /\ UNCHANGED <<stats_call, rc, io, th>>

RecenterBounds ==
    /\ \E around_price \in RcFloats, lower \in RcLowers, upper \in RcUppers :
          grid' = [op |-> "recenter_bounds", around_price |-> around_price,
                   lower |-> lower, upper |-> upper,
                   out |-> recenter_bounds(around_price, lower, upper)]
    /\ UNCHANGED <<split_vars, fifo_vars, watcher_vars, tracker_vars>>
    /\ UNCHANGED <<stats_call, rc, io, th>>

RecenterIdle ==
    rc = [ op          |-> "init",
           clock       |-> RcClockStart,
           dwell_state |-> [now |-> None, hit_since |-> None],
           timer_start |-> None,
           args        |-> [last_price |-> 0, lower |-> 0, upper |-> 0, edge_pct |-> 0,
                            drift |-> None, refresh |-> FALSE],
           result      |-> FALSE ]
\* ---------------------------------------------------------------------------
\* State files: what can be on disk, what each loader makes of it, and how
\* each writer changes it.  One file is followed at a time (io.path).
\* ---------------------------------------------------------------------------
MaxRestarts == 1

\* A proper prefix of a JSON text, the empty file included
Partial == [kind |-> "partial"]

\* Content that no writer of this repository produces:
\*   garbage      text that is not JSON
\*   not_utf8     bytes that are not UTF-8
\*   not_dict     JSON that is not an object ([] or null)
\*   empty_dict   the object {}
\*   bad_types    an object with the expected keys and values of other types
\*   unknown_key  an object with a key the state does not have
CorruptKinds == {"garbage", "not_utf8", "not_dict", "empty_dict", "bad_types", "unknown_key"}

\* What a load gives its caller: an exception, a state, or a value that is
\* not a state of the component (shape "foreign": the next use of it raises).
Loaded(state) == [raises |-> FALSE, shape |-> "state", state |-> state]
LoadRaises(default) == [raises |-> TRUE, shape |-> "none", state |-> default]
Foreign(default) == [raises |-> FALSE, shape |-> "foreign", state |-> default]

\* main.py lines 99-119.  json.load's result is returned unchecked; only
\* JSONDecodeError and IOError are caught.
TradingStateLoad(file) ==
    IF file.kind \in {"absent", "json"} THEN Loaded(load_trading_state(file))
    ELSE IF file.kind \in {"partial", "garbage"} THEN Loaded(TradingState)
    ELSE IF file.kind = "not_utf8" THEN LoadRaises(TradingState)
    ELSE Foreign(TradingState)

\* profit_split.py lines 126-148.  JSONDecodeError, TypeError and OSError are
\* caught; SplitState(**data) takes any value for a field it knows and
\* raises TypeError for a key it does not know.
SplitStateLoad(file) ==
    IF file.kind \in {"absent", "json"} THEN Loaded(_load_state(file))
    ELSE IF file.kind \in {"partial", "garbage", "not_dict", "empty_dict", "unknown_key"}
         THEN Loaded(SplitState)
    ELSE IF file.kind = "not_utf8" THEN LoadRaises(SplitState)
    ELSE Foreign(SplitState)

\* profit_watcher.py lines 114-125.  Every exception is caught; an object is
\* returned with its inventory replaced by [] unless that is a list.
WatcherStateLoad(file) ==
    IF file.kind \in {"absent", "json"} THEN Loaded(read_state(file))
    ELSE IF file.kind = "bad_types" THEN Foreign(_init_state)
    ELSE Loaded(_init_state)

\* profit_watcher._load_stats' default
RuntimeStats == [cumulative_profit_usd |-> 0, splits_count |-> 0, bnb_converted_usd |-> 0]

\* profit_watcher.py lines 56-66, for the contents its writer leaves
_load_stats(file) == IF file.kind = "json" THEN file.data ELSE RuntimeStats

Paths == {"trading", "split", "watcher", "stats"}

Default(path) ==
    CASE path = "trading" -> TradingState
      [] path = "split"   -> SplitState
      [] path = "watcher" -> _init_state
      [] path = "stats"   -> RuntimeStats

Load(path, file) ==
    CASE path = "trading" -> TradingStateLoad(file)
      [] path = "split"   -> SplitStateLoad(file)
      [] path = "watcher" -> WatcherStateLoad(file)
      [] path = "stats"   -> Loaded(_load_stats(file))

\* The states each component is asked to save
Docs(path) ==
    CASE path = "trading" ->
           {TradingState,
            [TradingState EXCEPT !.processed_buys = <<1>>,
                                 !.child_sells = Put(<<>>, 1, 2),
                                 !.buy_fills = Put(<<>>, 1, [price |-> 20000, amount |-> 5])]}
      [] path = "split"   ->
           {SplitState, [SplitState EXCEPT !.split_accumulator_usd = 3,
                                           !.last_action = "accumulate"]}
      [] path = "watcher" -> {_init_state, [_init_state EXCEPT !.last_trade_id = FirstTradeId]}
      [] path = "stats"   -> {RuntimeStats}

save_trading_state_Truncating(file, state, write_ok) ==
    IF write_ok THEN Json(state) ELSE Partial

\* main.py lines 122-135: the text goes to a temporary file that os.replace
\* moves over the state file; IOError and OSError are caught and logged.
save_trading_state(file, state, write_ok) ==
    IF write_ok THEN Json(state) ELSE file

\* profit_watcher.py lines 128-132 and profit_split.py lines 110-123: the same
\* two steps; an error leaves the file as it was and reaches the caller.
_write_state_atomically(file, data, write_ok) ==
    IF write_ok THEN Json(data) ELSE file

\* What a save does: the file afterwards, whether the call raised, and the
\* state object as the call leaves it (_save_state stamps it).
Save(path, file, state, t, write_ok) ==
    CASE path = "trading" ->
           [file |-> save_trading_state(file, state, write_ok), raises |-> FALSE,
            state |-> state]
      [] path = "split" ->
           [file   |-> IF write_ok THEN _save_state(state, t) ELSE file,
            raises |-> ~write_ok,
            state  |-> [state EXCEPT !.last_update_ts = t]]
      [] path = "watcher" ->
           [file |-> _write_state_atomically(file, state, write_ok), raises |-> ~write_ok,
            state |-> state]

NotSaved(path) ==
    [valid |-> FALSE, ok |-> FALSE, before |-> Absent, state |-> Default(path),
     generation |-> 0]

IoStart(path) ==
    [ path       |-> path,
      content    |-> Absent,
      op         |-> "init",
      pc         |-> "idle",
      pending    |-> RuntimeStats,
      saved      |-> NotSaved(path),
      loaded     |-> Loaded(Default(path)),
      generation |-> 0,
      observed   |-> "absent" ]

SaveStateFile ==
    /\ io.pc = "idle"
    /\ io.path # "stats"
    /\ \E state \in Docs(io.path), t \in {1, 2}, write_ok \in BOOLEAN :
          LET r == Save(io.path, io.content, state, t, write_ok)
          IN  io' = [io EXCEPT
                       !.op      = "save",
                       !.content = r.file,
                       !.saved   = IF r.raises THEN NotSaved(io.path)
                                   ELSE [valid |-> TRUE, ok |-> write_ok,
                                         before |-> io.content, state |-> r.state,
                                         generation |-> io.generation]]
    /\ UNCHANGED <<split_vars, fifo_vars, watcher_vars, tracker_vars>>
    /\ UNCHANGED <<stats_call, grid, rc, th>>

LoadStateFile ==
    /\ io.pc = "idle"
    /\ io' = [io EXCEPT !.op = "load", !.loaded = Load(io.path, io.content)]
    /\ UNCHANGED <<split_vars, fifo_vars, watcher_vars, tracker_vars>>
    /\ UNCHANGED <<stats_call, grid, rc, th>>

\* The process ends and a new one starts; nothing of a state outlives it but
\* the file.
RestartProcess ==
    /\ io.pc = "idle"
    /\ io.generation < MaxRestarts
    /\ io' = [io EXCEPT !.op = "restart", !.generation = @ + 1]
    /\ UNCHANGED <<split_vars, fifo_vars, watcher_vars, tracker_vars>>
    /\ UNCHANGED <<stats_call, grid, rc, th>>

\* Something other than the writers of this repository changes the file or
\* removes it.
CorruptFile ==
    /\ io.pc = "idle"
    /\ io.path # "stats"
    /\ \E k \in CorruptKinds \cup {"absent"} :
          io' = [io EXCEPT !.op = "corrupt", !.content = [kind |-> k],
                           !.saved = NotSaved(io.path)]
    /\ UNCHANGED <<split_vars, fifo_vars, watcher_vars, tracker_vars>>
    /\ UNCHANGED <<stats_call, grid, rc, th>>

\* profit_watcher.py lines 75-80, first part: the statistics are loaded and
\* Path.write_text opens runtime_stats.json for writing, which empties it.
SetBnbConvertedUsdOpen ==
    /\ io.pc = "idle"
    /\ io.path = "stats"
    /\ \E abs_total_usd \in {0, 3} :
          io' = [io EXCEPT
                   !.op      = "_set_bnb_converted_usd",
                   !.pc      = "opened",
                   !.pending = [_load_stats(io.content) EXCEPT
                                  !.bnb_converted_usd = abs_total_usd],
                   !.content = Partial]
    /\ UNCHANGED <<split_vars, fifo_vars, watcher_vars, tracker_vars>>
    /\ UNCHANGED <<stats_call, grid, rc, th>>

\* Second part: the text is written and the file closed.
SetBnbConvertedUsdWrite ==
    /\ io.pc = "opened"
    /\ io' = [io EXCEPT !.op = "_set_bnb_converted_usd", !.pc = "idle",
                       !.content = Json(io.pending)]
    /\ UNCHANGED <<split_vars, fifo_vars, watcher_vars, tracker_vars>>
    /\ UNCHANGED <<stats_call, grid, rc, th>>

\* Another process (the dashboard) opens the file and reads it.
ObserveFile ==
    /\ io' = [io EXCEPT !.op = "observe", !.observed = io.content.kind]
    /\ UNCHANGED <<split_vars, fifo_vars, watcher_vars, tracker_vars>>
    /\ UNCHANGED <<stats_call, grid, rc, th>>

IoIdle == io = IoStart("trading")

\* ---------------------------------------------------------------------------
\* profit_split.py called from two threads (or processes) at once.
\* file_lock is taken inside _load_state and inside _save_state and released
\* at the end of each, so a call is two critical sections: the load, and
\* (after the computation on the thread's own copy) the save.  The load and
\* save that _get_minimum_cost makes in between are folded into the second.
\* ---------------------------------------------------------------------------
Threads == {1, 2}

\* The calls a thread can make: the operation, its argument in units, and
\* what the exchange answers to _get_minimum_cost during the call.
ThreadCalls ==
    {[op |-> "handle", arg |-> p, answer |-> a] :
        p \in {1, SPLIT_CHUNK_USD * UnitsPerUsd}, a \in {Raises, Returns(UnitsPerUsd)}}
    \cup {[op |-> "pull", arg |-> 3, answer |-> Raises]}

NoCall == [op |-> "none", arg |-> 0, answer |-> Raises]

\* The split state files the two calls can start from
ThreadFiles ==
    {Absent, Json([SplitState EXCEPT !.split_accumulator_usd = 7,
                                     !.reinvest_pool_usd = 4])}

\* Lines 227-297 on the copy loaded at line 227: the file that line 297 writes.
HandleSave(loaded, file, call, t) ==
    LET ch  == Chunked(loaded, call.arg)
        mc  == _get_minimum_cost(file, t, call.answer)
        buy == BuyBnb(ch.state, mc.value, Returns(BnbLotPrice), TRUE)
    IN  _save_state(buy.state, t)

\* Lines 317-324 on the copy loaded at line 317
PullSave(loaded, file, call, t) ==
    LET amount_to_pull == AmountToPull(loaded, call.arg)
    IN  IF amount_to_pull > 0
        THEN _save_state([loaded EXCEPT !.reinvest_pool_usd = @ - amount_to_pull,
                                        !.total_reinvested_usd = @ + amount_to_pull,
                                        !.last_action = "reinvest pulled"], t)
        ELSE file

CallSave(loaded, file, call, t) ==
    IF call.op = "handle" THEN HandleSave(loaded, file, call, t)
    ELSE PullSave(loaded, file, call, t)

\* A thread enters handle_realized_profit or pull_reinvestment_funds.
ThreadCall(t) ==
    /\ th.pc[t] = "idle"
    /\ \E call \in ThreadCalls :
          th' = [th EXCEPT !.pc[t] = "called", !.call[t] = call]
    /\ UNCHANGED <<split_vars, fifo_vars, watcher_vars, tracker_vars>>
    /\ UNCHANGED <<stats_call, grid, rc, io>>

\* Line 227 or 317: state = _load_state(), under the lock.
ThreadLoad(t) ==
    /\ th.pc[t] = "called"
    /\ th' = [th EXCEPT !.pc[t] = "loaded", !.local[t] = _load_state(th.file)]
    /\ UNCHANGED <<split_vars, fifo_vars, watcher_vars, tracker_vars>>
    /\ UNCHANGED <<stats_call, grid, rc, io>>

\* The rest of the call, up to _save_state(state) under the lock.
ThreadSave(t) ==
    /\ th.pc[t] = "loaded"
    /\ th' = [th EXCEPT !.pc[t] = "done",
                       !.file = CallSave(th.local[t], th.file, th.call[t], 0)]
    /\ UNCHANGED <<split_vars, fifo_vars, watcher_vars, tracker_vars>>
    /\ UNCHANGED <<stats_call, grid, rc, io>>

ThreadsStart(file) ==
    [ file  |-> file,
      start |-> file,
      pc    |-> [t \in Threads |-> "idle"],
      call  |-> [t \in Threads |-> NoCall],
      local |-> [t \in Threads |-> SplitState] ]

ThreadsIdle == th = ThreadsStart(Absent)

\* ---------------------------------------------------------------------------
\* Specifications
\* ---------------------------------------------------------------------------
InitSplit == SplitInit /\ FifoIdle /\ WatcherInit /\ TrackerIdle
    /\ StatsIdle /\ GridIdle /\ RecenterIdle /\ IoIdle /\ ThreadsIdle

SplitNext == HandleRealizedProfit \/ PullReinvestmentFunds \/ Tick

SpecSplit == InitSplit /\ [][SplitNext]_vars

InitFifo == SplitInit /\ FifoInit /\ WatcherInit /\ TrackerIdle
    /\ StatsIdle /\ GridIdle /\ RecenterIdle /\ IoIdle /\ ThreadsIdle

SpecFifo == InitFifo /\ [][FifoMatchSell]_vars

InitWatcher == SplitInit /\ FifoIdle /\ WatcherInit /\ TrackerIdle
    /\ StatsIdle /\ GridIdle /\ RecenterIdle /\ IoIdle /\ ThreadsIdle

WatcherNext ==
    \/ ExchangeTrade
    \/ WatcherStart
    \/ WatcherStartBackfill
    \/ LiveTailIteration
    \/ WatcherStop

SpecWatcher == InitWatcher /\ [][WatcherNext]_vars

InitTracker == SplitInit /\ FifoIdle /\ WatcherInit /\ TrackerInit
    /\ StatsIdle /\ GridIdle /\ RecenterIdle /\ IoIdle /\ ThreadsIdle

TrackerNext ==
    \/ ExchangeFillBuy
    \/ ExchangeFillSell
    \/ Poll
    \/ Signal
    \/ TrackerExit
    \/ TrackerStop
    \/ TrackerStart

SpecTracker == InitTracker /\ [][TrackerNext]_vars

InitStats ==
    SplitInit /\ FifoIdle /\ WatcherInit /\ TrackerIdle
    /\ StatsIdle /\ GridIdle /\ RecenterIdle /\ IoIdle /\ ThreadsIdle

StatsNext == AddRealizedProfit \/ AddActualSplits

SpecStats == InitStats /\ [][StatsNext]_vars

InitGrid ==
    SplitInit /\ FifoIdle /\ WatcherInit /\ TrackerIdle
    /\ StatsIdle /\ GridIdle /\ RecenterIdle /\ IoIdle /\ ThreadsIdle

GridNext ==
    \/ ComputeGridLevels
    \/ RecenterBounds
    \/ SellTarget
    \/ BootstrapBuyOrders
    \/ GeomLevels

SpecGrid == InitGrid /\ [][GridNext]_vars

InitRecenter ==
    SplitInit /\ FifoIdle /\ WatcherInit /\ TrackerIdle
    /\ StatsIdle /\ GridIdle /\ RecenterIdle /\ IoIdle /\ ThreadsIdle

SpecRecenter == InitRecenter /\ [][NeedRecenter]_vars

InitIo ==
    SplitInit /\ FifoIdle /\ WatcherInit /\ TrackerIdle
    /\ StatsIdle /\ GridIdle /\ RecenterIdle /\ ThreadsIdle
    /\ (\E path \in Paths : io = IoStart(path))

IoNext ==
    \/ SaveStateFile
    \/ LoadStateFile
    \/ RestartProcess
    \/ CorruptFile
    \/ SetBnbConvertedUsdOpen
    \/ SetBnbConvertedUsdWrite
    \/ ObserveFile

SpecIo == InitIo /\ [][IoNext]_vars

InitThreads ==
    SplitInit /\ FifoIdle /\ WatcherInit /\ TrackerIdle
    /\ StatsIdle /\ GridIdle /\ RecenterIdle /\ IoIdle
    /\ (\E file \in ThreadFiles : th = ThreadsStart(file))

ThreadsNext == \E t \in Threads : ThreadCall(t) \/ ThreadLoad(t) \/ ThreadSave(t)

SpecThreads == InitThreads /\ [][ThreadsNext]_vars

\* The trading loop on an account with many orders: the grid's buy orders are
\* open, and the account has placed and cancelled further orders since.
OlderOrders == FetchLimit - 3
WindowInit ==
    /\ orders \in {[i \in 1..(MaxBuys + OlderOrders) |->
                       IF i <= MaxBuys
                       THEN [id |-> i, side |-> "buy", status |-> "open", amount |-> a,
                             filled |-> 0, price |-> BuyPrice(i), average |-> 0,
                             for_buy |-> 0]
                       ELSE Cancelled(i)] : a \in BuyAmounts}
    /\ t_pc = "running"
    /\ t_state = TradingState
    /\ t_file = Absent
    /\ t_call = Call("init")
    /\ t_faults = 0
    /\ stop_flag = FALSE

InitWindow ==
    SplitInit /\ FifoIdle /\ WatcherInit /\ WindowInit
    /\ StatsIdle /\ GridIdle /\ RecenterIdle /\ IoIdle /\ ThreadsIdle

WindowNext ==
    \/ ExchangeFillBuy
    \/ ExchangeFillSell
    \/ PollRunning
    \/ OtherOrder

SpecWindow == InitWindow /\ [][WindowNext]_vars

\* The poll loop keeps running, and fetch_orders and the placement of sells
\* succeed again and again.
SpecWindowFair == SpecWindow /\ WF_vars(CleanPoll)

\* The main loop takes its next step as long as the process lives: once the
\* loop test fails, run_trading_bot returns.
SpecTrackerFair == SpecTracker /\ WF_vars(TrackerExit)

\* ===========================================================================
\* Properties of profit_split.py (specification SpecSplit)
\* ===========================================================================
Split == _load_state(split_file)
SplitAfter == _load_state(split_file')

\* A step that is an invocation of handle_realized_profit with profit > 0.
HandledProfit == split_call'.op = "handle" /\ split_call'.profit > 0

\* The chunks the invocation of this step must make, by the claimed formula.
ClaimedChunks == (Split.split_accumulator_usd + split_call'.profit) \div chunk_size
ClaimedToBnb == (ClaimedChunks * chunk_size * SPLIT_RATIO_NUM) \div SPLIT_RATIO_DEN
ClaimedToReinvest ==
    (ClaimedChunks * chunk_size * (SPLIT_RATIO_DEN - SPLIT_RATIO_NUM)) \div SPLIT_RATIO_DEN
PendingAfterChunking == Split.bnb_pending_usd + ClaimedToBnb

\* C6: after every update of the split state the accumulator holds less than
\* one chunk and is not negative.
C6_AccumulatorBelowChunk ==
    /\ 0 <= Split.split_accumulator_usd
    /\ Split.split_accumulator_usd < chunk_size

C6_Witness ==
    /\ split_call.op = "handle"
    /\ result.chunks >= 2
    /\ Split.split_accumulator_usd > 0

\* C7: a positive profit p on accumulator a makes floor((a + p) / chunk)
\* chunks, reported in the result; the chunks' BNB share goes to bnb_pending_usd
\* (from where the purchase of the same invocation may take it), the rest to
\* reinvest_pool_usd, and the accumulator keeps (a + p) - chunks * chunk.
C7_ChunkArithmetic ==
    [][HandledProfit =>
        /\ result'.chunks = ClaimedChunks
        /\ result'.reinvest_added_usd = ClaimedToReinvest
        /\ SplitAfter.split_accumulator_usd =
               Split.split_accumulator_usd + split_call'.profit
                 - ClaimedChunks * chunk_size
        /\ SplitAfter.reinvest_pool_usd = Split.reinvest_pool_usd + ClaimedToReinvest
        /\ SplitAfter.bnb_pending_usd + result'.bnb_bought_usd = PendingAfterChunking
    ]_vars

\* 8.5 USD on an empty state: 2 chunks, 4.0 USD to each pool, 0.5 USD kept.
C7_Witness ==
    /\ split_call.op = "handle"
    /\ 2 * split_call.profit = 17 * UnitsPerUsd
    /\ fed_total = split_call.profit
    /\ result.chunks = 2
    /\ Split.bnb_pending_usd = 4 * UnitsPerUsd
    /\ Split.reinvest_pool_usd = 4 * UnitsPerUsd
    /\ 2 * Split.split_accumulator_usd = UnitsPerUsd

\* The create_order calls of this step.
NewOrders == SubSeq(bnb_orders', Len(bnb_orders) + 1, Len(bnb_orders'))

\* C8 as claimed: whenever the pending amount after chunking reaches the
\* minimum cost, exactly one market buy is issued, for the full pending amount.
C8_ExactlyOneOrderWhenAboveMinimum ==
    [][HandledProfit /\ PendingAfterChunking >= split_call'.minimum_cost =>
        /\ Len(NewOrders) = 1
        /\ NewOrders[1].usd = PendingAfterChunking
    ]_vars

\* C8 amended: at most one market buy per invocation; exactly one when the
\* pending amount reaches the minimum cost, fetch_ticker returns a price and
\* the quantity rounded to the amount precision is positive.  Its quantity is
\* the full pending amount at the last price, rounded down.  When create_order
\* returns, total_sent_to_bnb_usd grows by the pending amount and
\* bnb_pending_usd becomes 0.  Below the minimum cost no order is issued and
\* bnb_pending_usd is not reset.
C8_OrderWhenAboveMinimum ==
    [][HandledProfit =>
        /\ Len(NewOrders) <= 1
        /\ Len(NewOrders) = 1 <=>
              /\ PendingAfterChunking >= split_call'.minimum_cost
              /\ split_call'.outcome \in {"bought", "order_failed"}
        /\ Len(NewOrders) = 1 =>
              /\ NewOrders[1].usd = PendingAfterChunking
              /\ NewOrders[1].qty > 0
              /\ NewOrders[1].qty * NewOrders[1].price <= PendingAfterChunking
              /\ (NewOrders[1].qty + 1) * NewOrders[1].price > PendingAfterChunking
        /\ (Len(NewOrders) = 1 /\ NewOrders[1].ok) =>
              /\ SplitAfter.total_sent_to_bnb_usd =
                     Split.total_sent_to_bnb_usd + PendingAfterChunking
              /\ SplitAfter.bnb_pending_usd = 0
              /\ result'.bnb_bought_usd = PendingAfterChunking
        /\ PendingAfterChunking >= split_call'.minimum_cost =>
              split_call'.outcome \in
                  {"bought", "order_failed", "ticker_failed", "zero_quantity"}
        /\ PendingAfterChunking < split_call'.minimum_cost =>
              /\ Len(NewOrders) = 0
              /\ SplitAfter.bnb_pending_usd = PendingAfterChunking
              /\ SplitAfter.total_sent_to_bnb_usd = Split.total_sent_to_bnb_usd
    ]_vars

C8_Witness ==
    /\ split_call.op = "handle"
    /\ split_call.outcome = "bought"
    /\ Len(bnb_orders) = 1
    /\ Split.bnb_pending_usd = 0
    /\ Split.total_sent_to_bnb_usd = bnb_orders[1].usd
    /\ bnb_orders[1].usd >= split_call.minimum_cost

\* C9: a failed purchase (fetch_ticker or create_order raises) leaves
\* bnb_pending_usd and total_sent_to_bnb_usd at their values after chunking,
\* the chunking of the invocation is persisted, and every later positive
\* profit event that finds bnb_pending_usd >= the minimum cost attempts the
\* purchase again.
C9_FailedPurchaseKeepsPending ==
    [][HandledProfit =>
        /\ split_call'.outcome \in {"ticker_failed", "order_failed"} =>
              /\ split_file'.kind = "json"
              /\ SplitAfter.bnb_pending_usd = PendingAfterChunking
              /\ SplitAfter.bnb_pending_usd >= split_call'.minimum_cost
              /\ SplitAfter.total_sent_to_bnb_usd = Split.total_sent_to_bnb_usd
              /\ SplitAfter.split_accumulator_usd =
                     Split.split_accumulator_usd + split_call'.profit
                       - ClaimedChunks * chunk_size
              /\ SplitAfter.reinvest_pool_usd =
                     Split.reinvest_pool_usd + ClaimedToReinvest
              /\ SplitAfter.last_update_ts = now
        /\ (split_call'.prev_failed
               /\ PendingAfterChunking >= split_call'.minimum_cost) =>
              split_call'.outcome \in
                  {"bought", "order_failed", "ticker_failed", "zero_quantity"}
    ]_vars

\* A purchase that succeeds on the event after a failed one.
C9_Witness ==
    /\ split_call.op = "handle"
    /\ split_call.prev_failed
    /\ split_call.outcome = "bought"
    /\ Split.bnb_pending_usd = 0
    /\ Split.total_sent_to_bnb_usd > 0

\* C10: the profit fed in is the sum of the five amounts of the split state,
\* none of which is negative.
C10_FundsConserved ==
    /\ fed_total = Split.split_accumulator_usd + Split.bnb_pending_usd
                      + Split.reinvest_pool_usd + Split.total_sent_to_bnb_usd
                      + Split.total_reinvested_usd
    /\ Split.split_accumulator_usd >= 0
    /\ Split.bnb_pending_usd >= 0
    /\ Split.reinvest_pool_usd >= 0
    /\ Split.total_sent_to_bnb_usd >= 0
    /\ Split.total_reinvested_usd >= 0

C10_Witness ==
    /\ Split.split_accumulator_usd > 0
    /\ Split.reinvest_pool_usd > 0
    /\ Split.total_sent_to_bnb_usd > 0
    /\ Split.total_reinvested_usd > 0
    /\ \E i \in 1..Len(bnb_orders) : ~bnb_orders[i].ok

\* ===========================================================================
\* Properties of fifo_match_sell (specification SpecFifo)
\* ===========================================================================
RECURSIVE SumQty(_)
SumQty(inventory) ==
    IF Len(inventory) = 0 THEN 0 ELSE inventory[1].qty + SumQty(Tail(inventory))

\* What a FIFO match of qty takes from lot i: the part of the lot that lies
\* below qty when the lots are laid end to end, oldest first.
QtyBefore(inventory, i) == SumQty(SubSeq(inventory, 1, i - 1))
TakenFrom(inventory, i, qty) ==
    LET before == QtyBefore(inventory, i)
    IN  IF qty <= before THEN 0 ELSE Min(qty - before, inventory[i].qty)

RECURSIVE SumProfit(_, _, _, _)
SumProfit(inventory, i, sell_price, qty) ==
    IF i = 0 THEN 0
    ELSE LET m == TakenFrom(inventory, i, qty)
             p == inventory[i].price
         IN  (sell_price - p) * m * FEE_RATE_DEN - (p * m + sell_price * m) * FEE_RATE_NUM
               + SumProfit(inventory, i - 1, sell_price, qty)

\* The lots left: every lot with what was taken from it removed, empty lots
\* dropped, order kept.
LotsLeft(inventory, qty) ==
    LET reduced == [i \in 1..Len(inventory) |->
                      [inventory[i] EXCEPT !.qty = @ - TakenFrom(inventory, i, qty)]]
        NotEmpty(lot) == lot.qty > 0
    IN  SelectSeq(reduced, NotEmpty)

\* C5: fifo_match_sell consumes the lots oldest first: the matched quantity is
\* min(q, total inventory), the realized profit is the sum over the matched
\* slices of (p - lot.price) * matched less the two-sided fee, consumed lots are
\* removed, at most one lot is left partially consumed at the head of the
\* untouched suffix, and a sell larger than the inventory empties it.
C5_FifoMatch ==
    fifo_out.done =>
      LET inv == fifo_in.inventory
          q == fifo_in.qty
          left == fifo_out.inventory
          k == Len(inv) - Len(left)
      IN  /\ fifo_out.matched = Min(q, SumQty(inv))
          /\ fifo_out.realized = SumProfit(inv, Len(inv), fifo_in.sell_price, q)
          /\ left = LotsLeft(inv, q)
          /\ k >= 0
          /\ \A i \in 2..Len(left) : left[i] = inv[k + i]
          /\ Len(left) > 0 =>
                /\ left[1].price = inv[k + 1].price
                /\ left[1].qty = inv[k + 1].qty - (q - QtyBefore(inv, k + 1))
                /\ left[1].qty > 0
          /\ q >= SumQty(inv) => left = <<>>

\* Lots (1.0 @ 100), (1.0 @ 110) and a sell of 1.5 @ 120, in steps of 0.5:
\* profit 20 * 1.0 + 10 * 0.5 less the fees, and 0.5 @ 110 is left.
C5_Witness ==
    /\ fifo_out.done
    /\ fifo_in = [inventory |-> <<[qty |-> 2, price |-> 100], [qty |-> 2, price |-> 110]>>,
                  sell_price |-> 120, qty |-> 3]
    /\ fifo_out.matched = 3
    /\ fifo_out.inventory = <<[qty |-> 1, price |-> 110]>>
    /\ fifo_out.realized = (20 * 2 + 10 * 1) * FEE_RATE_DEN
                             - ((100 + 120) * 2 + (110 + 120) * 1) * FEE_RATE_NUM

\* ===========================================================================
\* Properties of the watcher process (specification SpecWatcher)
\* ===========================================================================

\* C3: on every poll of the live loop the trades folded into the inventory and
\* the profit are exactly the fetched trades whose id is greater, as a number,
\* than the recorded last_trade_id.
C3_LivePollFoldsNewerIds ==
    w_call.op = "live" =>
        w_call.folded = {i \in w_call.fetched : IsNewTrade_Numeric(i, w_call.last_id)}

\* C4: a backfill that starts from a state file holding a checkpoint and an
\* inventory folds only trades with an id greater than the checkpoint.
C4_BackfillFoldsNewerIds ==
    (w_call.op = "backfill" /\ w_call.last_id # None /\ w_call.lots_before > 0) =>
        \A i \in w_call.folded : i > w_call.last_id


\* ---------------------------------------------------------------------------
\* Properties of the trading loop (SpecTracker)
\* ---------------------------------------------------------------------------
\* The sell orders on the exchange that were placed for buy order b.
SellsFor(b) ==
    {i \in 1..Len(orders) : orders[i].side = "sell" /\ orders[i].for_buy = b}

\* How often b is listed in processed_buys.
TimesProcessed(b) ==
    Cardinality({i \in 1..Len(t_state.processed_buys) : t_state.processed_buys[i] = b})

\* C1: within one running process, a buy that has been handled (its id is in
\* processed_buys) is skipped by every later poll: no further sell is placed
\* for it and its entries in child_sells, buy_fills and processed_buys stay as
\* they are; a poll that pairs a buy places exactly one sell for it, and only
\* for a buy that was not handled before.
C1_HandledBuyIsSkipped ==
    [][(t_pc = "running" /\ t_pc' = "running") =>
          /\ \A b \in Elems(t_state.processed_buys) :
                /\ SellsFor(b)' = SellsFor(b)
                /\ b \in DOMAIN t_state'.child_sells
                /\ t_state'.child_sells[b] = t_state.child_sells[b]
                /\ t_state'.buy_fills[b] = t_state.buy_fills[b]
                /\ TimesProcessed(b)' = 1
          /\ \A b \in 1..MaxBuys :
                SellsFor(b)' # SellsFor(b) =>
                    /\ b \notin Elems(t_state.processed_buys)
                    /\ Cardinality(SellsFor(b)') = Cardinality(SellsFor(b)) + 1
                    /\ TimesProcessed(b)' = 1]_vars

\* A poll fetched the orders, among them a filled buy that an earlier poll of
\* the same process had handled, and placed nothing for it.
C1_Witness ==
    /\ t_call.op = "poll"
    /\ t_call.fetched
    /\ \E b \in Elems(t_state.processed_buys) :
          /\ b \notin t_call.paired
          /\ orders[b].status = "closed"
          /\ Cardinality(SellsFor(b)) = 1

\* C2: in every execution, process stops, restarts and failed writes of the
\* state file included, no buy order has more than one sell order placed for
\* it on the exchange.
C2_OneSellPerFilledBuy ==
    \A b \in 1..MaxBuys : Cardinality(SellsFor(b)) <= 1


\* A step that is one iteration of the main trading loop.
PollStep ==
    /\ t_pc = "running"
    /\ t_call'.op = "poll"
    /\ Len(orders') >= Len(orders)
    /\ SubSeq(orders', 1, Len(orders)) = orders

\* The five amounts of the persisted split state.
SplitFunds(file) ==
    LET st == _load_state(file)
    IN  st.split_accumulator_usd + st.bnb_pending_usd + st.reinvest_pool_usd
          + st.total_sent_to_bnb_usd + st.total_reinvested_usd

\* C11: a poll that processes a filled sell with a positive pair profit hands
\* the profit to the splitter, so that the persisted split state (accumulator
\* plus pools) has grown by exactly that profit when the poll ends.
C11_ProfitReachesSplitter ==
    [][(PollStep /\ t_state'.realized_profit_usd > t_state.realized_profit_usd) =>
          SplitFunds(split_file') * TickStepsPerUsd
            = SplitFunds(split_file) * TickStepsPerUsd
                + (t_state'.realized_profit_usd - t_state.realized_profit_usd)
                    * UnitsPerUsd]_vars

\* The order with the given id.
OrderOf(id) == orders[id]

\* The filled sells on the exchange that sell_fills does not hold yet.
NewFilledSells ==
    {orders[i].id : i \in {j \in 1..Len(orders) :
                              /\ orders[j].side = "sell"
                              /\ orders[j].status = "closed"
                              /\ orders[j].id \notin DOMAIN t_state.sell_fills}}

\* The claimed profit of a filled sell: against the buy that child_sells maps
\* to it, 0 when there is none.
ClaimedPairProfit(state, sell) ==
    LET parents == {b \in DOMAIN state.child_sells : state.child_sells[b] = sell.id}
    IN  IF parents = {} THEN 0
        ELSE LET b == CHOOSE x \in parents : TRUE
             IN  IF b \notin DOMAIN state.buy_fills THEN 0
                 ELSE (sell.average - state.buy_fills[b].price)
                        * Min(sell.filled, state.buy_fills[b].amount)

RECURSIVE SumPositive(_, _)
SumPositive(state, ids) ==
    IF ids = {} THEN 0
    ELSE LET s == CHOOSE x \in ids : TRUE
             p == ClaimedPairProfit(state, OrderOf(s))
         IN  (IF p > 0 THEN p ELSE 0) + SumPositive(state, ids \ {s})

\* C12: a poll records every filled sell it processes in sell_fills with its
\* average price and filled quantity, and realized_profit_usd grows by the
\* positive ones among the profits (sell price - buy price) * min(sell
\* quantity, buy quantity), taken against the parent buy found in child_sells
\* (0 when no parent is known); it stays as it was when none is positive.
C12_SellProfit ==
    [][(PollStep /\ t_call'.fetched) =>
          /\ DOMAIN t_state'.sell_fills = DOMAIN t_state.sell_fills \cup NewFilledSells
          /\ \A s \in NewFilledSells :
                t_state'.sell_fills[s] = [price |-> OrderOf(s).average,
                                          amount |-> OrderOf(s).filled]
          /\ t_state'.realized_profit_usd
               = t_state.realized_profit_usd + SumPositive(t_state', NewFilledSells)]_vars

\* One poll recorded a sell with a positive profit and a sell without a known
\* parent, whose profit is 0.
C12_Witness ==
    /\ t_call.op = "poll"
    /\ t_state.realized_profit_usd > 0
    /\ \E s \in t_call.recorded : ClaimedPairProfit(t_state, OrderOf(s)) > 0
    /\ \E s \in t_call.recorded : ClaimedPairProfit(t_state, OrderOf(s)) = 0

\* C13: while the process runs, a sell whose id is in sell_fills is processed
\* no more: its entry stays, and a poll that observes only sells already
\* recorded changes neither sell_fills nor realized_profit_usd nor the split
\* state.
C13_SellProcessedOnce ==
    [][(t_pc = "running" /\ t_pc' = "running") =>
          /\ \A s \in DOMAIN t_state.sell_fills :
                /\ s \in DOMAIN t_state'.sell_fills
                /\ t_state'.sell_fills[s] = t_state.sell_fills[s]
          /\ PollStep =>
                t_state'.realized_profit_usd
                  <= t_state.realized_profit_usd + SumPositive(t_state', NewFilledSells)
          /\ (PollStep /\ NewFilledSells = {}) =>
                /\ t_state'.sell_fills = t_state.sell_fills
                /\ t_state'.realized_profit_usd = t_state.realized_profit_usd
                /\ split_file' = split_file]_vars

\* A poll fetched a filled sell that an earlier poll had recorded with its
\* profit, and recorded nothing.
C13_Witness ==
    /\ t_call.op = "poll"
    /\ t_call.fetched
    /\ t_call.recorded = {}
    /\ t_state.realized_profit_usd > 0
    /\ \E s \in DOMAIN t_state.sell_fills : OrderOf(s).status = "closed"

\* C14: a poll in which the placement of the sell for a filled buy fails leaves
\* the buy out of processed_buys, child_sells and buy_fills, so that the buy
\* is still to be paired; and every poll that fetches the orders attempts the
\* placement for every buy that is to be paired.
C14_FailedPlacementIsRetried ==
    [][PollStep =>
          /\ \A b \in t_call'.place_failed :
                /\ b \notin Elems(t_state'.processed_buys)
                /\ b \notin DOMAIN t_state'.child_sells
                /\ b \notin DOMAIN t_state'.buy_fills
                /\ BuyToPair(t_state', OrderOf(b))
          /\ t_call'.fetched => BuysToPair = t_call'.paired \cup t_call'.place_failed]_vars

\* A placement failed in the last poll.
C14_Witness ==
    /\ t_call.op = "poll"
    /\ t_call.place_failed # {}
    /\ t_call.place_failed \subseteq BuysToPair

\* C15: a poll whose fetch of the orders fails with a transient error changes
\* neither the dict state nor state.json, places no order, and leaves the loop
\* running.
C15_FailedFetchChangesNothing ==
    [][(PollStep /\ t_call'.error = "transient") =>
          /\ t_state' = t_state
          /\ t_file' = t_file
          /\ orders' = orders
          /\ t_pc' = "running"]_vars

\* The fetch failed while a filled buy was waiting for its sell.
C15_Witness ==
    /\ t_call.op = "poll"
    /\ t_call.error = "transient"
    /\ BuysToPair # {}
    /\ t_pc = "running"

\* C16: after a poll in which the exchange raised an authentication error the
\* trading loop is not running any more.
C16_AuthErrorIsFatal ==
    (t_call.op = "poll" /\ t_call.error = "auth") => t_pc # "running"

\* C17: once the stop flag is set no iteration is started; an iteration
\* during which the signal arrives completes, attempting the sell of every
\* filled buy, recording every filled sell and writing state.json unless the
\* write fails; and the loop ends.
C17_CooperativeCancellation ==
    /\ [][stop_flag => ~PollStep]_vars
    /\ [][(PollStep /\ stop_flag' /\ t_call'.fetched) =>
             /\ t_call'.paired \cup t_call'.place_failed = BuysToPair
             /\ t_call'.recorded = NewFilledSells
             /\ (t_call'.save_failed = {} /\ t_state' # t_state) =>
                    t_file' = Json(t_state')]_vars
    /\ (t_pc = "running" /\ stop_flag) ~> (t_pc # "running")

\* The signal arrived during a poll that placed a sell and wrote the state.
C17_Witness ==
    /\ stop_flag
    /\ t_call.op = "poll"
    /\ t_call.paired # {}
    /\ t_file = Json(t_state)


Pulled == split_call'.op = "pull"

\* What a pull of the amount does to the state file.
PullTakes(amount) ==
    /\ split_call'.pulled = amount
    /\ SplitAfter.reinvest_pool_usd = Split.reinvest_pool_usd - amount
    /\ SplitAfter.total_reinvested_usd = Split.total_reinvested_usd + amount
    /\ SplitAfter.reinvest_pool_usd >= 0
    /\ SplitAfter.split_accumulator_usd = Split.split_accumulator_usd
    /\ SplitAfter.bnb_pending_usd = Split.bnb_pending_usd
    /\ SplitAfter.total_sent_to_bnb_usd = Split.total_sent_to_bnb_usd

\* C19 as stated: pull_reinvestment_funds(max) returns min(reinvest_pool_usd,
\* max), moves that amount from reinvest_pool_usd to total_reinvested_usd,
\* keeps the pool at or above 0 and leaves the other amounts alone.
C19_PullReturnsMin ==
    [][Pulled => PullTakes(Min(Split.reinvest_pool_usd, split_call'.max))]_vars

\* C19, amended: the same for max > 0; for max <= 0 the call returns 0 and
\* changes nothing.
C19_PullReturnsMinOfPositive ==
    [][Pulled =>
          IF split_call'.max > 0
          THEN PullTakes(Min(Split.reinvest_pool_usd, split_call'.max))
          ELSE PullTakes(0) /\ split_file' = split_file]_vars

\* A pull has taken a part of the pool.
C19_Witness ==
    /\ split_call.op = "pull"
    /\ split_call.pulled > 0
    /\ split_call.pulled = split_call.max
    /\ Split.reinvest_pool_usd > 0
    /\ Split.total_reinvested_usd >= split_call.pulled

\* C20: an invocation of handle_realized_profit less than 60 seconds after a
\* lookup that queried the exchange takes the minimum cost from the cache and
\* does not query the exchange.
C20_MinimumCostCached ==
    [][(/\ HandledProfit
        /\ split_call.queried_at # None
        /\ now - split_call.queried_at < MIN_COST_CACHE_DURATION) =>
          ~split_call'.queried]_vars


\* ---------------------------------------------------------------------------
\* Properties of the runtime statistics
\* ---------------------------------------------------------------------------
\* C21: an invocation of handle_realized_profit that processes k complete
\* chunks raises actual_splits_count of the runtime statistics by k.
C21_ChunksAreCounted ==
    [][HandledProfit =>
          w_stats'.actual_splits_count = w_stats.actual_splits_count + result'.chunks]_vars

\* What a step that is a call of utils_stats does to the counters.
StatsCallEffect ==
    IF stats_call'.op = "add_realized_profit"
    THEN /\ w_stats'.sell_trades_count = w_stats.sell_trades_count + stats_call'.n
         /\ w_stats'.actual_splits_count = w_stats.actual_splits_count
    ELSE /\ w_stats'.actual_splits_count = w_stats.actual_splits_count + stats_call'.n
         /\ w_stats'.sell_trades_count = w_stats.sell_trades_count
         /\ w_stats'.cumulative_profit_usd = w_stats.cumulative_profit_usd

\* C22: add_realized_profit(delta, inc_sell_trades = n) raises
\* sell_trades_count by n and leaves actual_splits_count alone;
\* add_actual_splits(k) raises actual_splits_count by k and leaves
\* sell_trades_count and cumulative_profit_usd alone; both start at 0.
C22_CountersAreIndependent ==
    /\ w_stats.sell_trades_count = 0
    /\ w_stats.actual_splits_count = 0
    /\ [][stats_call'.op \in {"add_realized_profit", "add_actual_splits"}
             => StatsCallEffect]_vars

\* Three sell trades were counted, then two chunks.
C22_Witness ==
    /\ stats_call.op = "add_actual_splits"
    /\ stats_call.n = 2
    /\ w_stats.sell_trades_count = 3
    /\ w_stats.actual_splits_count = 2


\* ---------------------------------------------------------------------------
\* Properties of the grid levels (SpecGrid)
\* ---------------------------------------------------------------------------
\* A call of compute_grid_levels with 0 < low < high and step > 0.
GridCall ==
    /\ grid.op = "compute_grid_levels"
    /\ 0 < grid.low
    /\ grid.low < grid.high
    /\ grid.step > 0

StrictlyIncreasing(levels) ==
    \A i \in 1..(Len(levels) - 1) : levels[i] < levels[i + 1]

\* C23: for 0 < low < high and step > 0 compute_grid_levels returns a strictly
\* increasing sequence whose first element is low and whose last element is
\* high.
C23_LevelsFromLowToHigh ==
    GridCall =>
        /\ ~grid.out.diverges
        /\ Len(grid.out.levels) > 0
        /\ StrictlyIncreasing(grid.out.levels)
        /\ grid.out.levels[1] = grid.low
        /\ grid.out.levels[Len(grid.out.levels)] = grid.high

\* C24: for every low < high and every step > 0 compute_grid_levels ends, with
\* no more levels than the hard cap.
C24_LevelGenerationEnds ==
    GridCall => (~grid.out.diverges /\ Len(grid.out.levels) <= LevelCap)


\* ---------------------------------------------------------------------------
\* Properties of recentering (SpecRecenter, SpecGrid)
\* ---------------------------------------------------------------------------
RcHit == _edge_hit(rc.args.last_price, rc.args.lower, rc.args.upper, rc.args.edge_pct)

\* The price is at least drift percent of the width away from the center.
RcDrifted ==
    /\ rc.args.drift # None
    /\ 100 * Abs(2 * rc.args.last_price - (rc.args.lower + rc.args.upper))
           >= 2 * (rc.args.upper - rc.args.lower) * rc.args.drift

\* The price was an edge hit on every call since the timer started, and the
\* time since then is at least the dwell time.
RcDwelled ==
    /\ RcHit
    /\ rc.timer_start # None
    /\ rc.clock - rc.timer_start >= DwellSeconds

\* C25: need_recenter returns true exactly when the price has been an edge hit
\* on every call since the dwell timer started and at least dwell_seconds
\* have passed since then, or a drift threshold is configured and the price
\* is that far from the center; a call that is not an edge hit clears
\* hit_since.
C25_RecenterExactlyOnDwellOrDrift ==
    rc.op = "need_recenter" =>
        /\ rc.result = (RcDwelled \/ RcDrifted)
        /\ (~RcHit => rc.dwell_state.hit_since = None)


\* A call of recenter_bounds
BoundsCall == grid.op = "recenter_bounds"

\* The error that rounding the results to floats can leave in a bound
RoundingError == Ulp(grid.out.new_upper)

LoadAfterSave ==
    /\ io.path \in {"trading", "split"}
    /\ io.saved.valid
    /\ io'.op = "load"

C28_NoPartialFileObserved ==
    io.observed # "partial"

\* C29: loading a file that is absent or corrupt yields the default state,
\* and the component goes on with it.
C29_CorruptFileGivesDefault ==
    (io.op = "load" /\ io.content.kind \in CorruptKinds \cup {"absent", "partial"}) =>
        io.loaded = Loaded(Default(io.path))


\* ---------------------------------------------------------------------------
\* Minimum notional of the sells (SpecTracker)
\* ---------------------------------------------------------------------------
\* C30: every sell order placed by the buy-fill handler has a notional value
\* quantity * price of at least the exchange's minimum notional.
C30_SellMeetsMinimumNotional ==
    \A i \in 1..Len(orders) :
        orders[i].side = "sell" => orders[i].amount * orders[i].price >= min_cost


\* ---------------------------------------------------------------------------
\* Two threads on the split state (SpecThreads)
\* ---------------------------------------------------------------------------
\* The file after the whole of call a, then the whole of call b
Serial(file, a, b) ==
    LET after_a == CallSave(_load_state(file), file, a, 0)
    IN  CallSave(_load_state(after_a), after_a, b, 0)

\* C31: when two calls of handle_realized_profit / pull_reinvestment_funds run
\* concurrently on the same file, the state persisted in the end is the
\* result of running them in some serial order.
C31_ConcurrentCallsSerialize ==
    (\A t \in Threads : th.pc[t] = "done") =>
        \/ th.file = Serial(th.start, th.call[1], th.call[2])
        \/ th.file = Serial(th.start, th.call[2], th.call[1])


\* ---------------------------------------------------------------------------
\* Further properties of the trading loop (SpecTracker)
\* ---------------------------------------------------------------------------
\* The three records of a trading state name the same buys, each a filled buy.
BuyRecordsAgree(state) ==
    /\ Elems(state.processed_buys) = DOMAIN state.child_sells
    /\ DOMAIN state.child_sells = DOMAIN state.buy_fills
    /\ \A b \in Elems(state.processed_buys) :
          /\ b \in 1..Len(orders)
          /\ orders[b].side = "buy"
          /\ orders[b].status = "closed"
          /\ orders[b].filled > 0
          /\ orders[b].average > 0

\* C32: in every reachable trading state, in memory and on disk, processed_buys,
\* the keys of child_sells and the keys of buy_fills are the same set of ids,
\* and every one of them is a buy that was filled with a positive amount and
\* price.
C32_BuyRecordsAgree ==
    /\ BuyRecordsAgree(t_state)
    /\ BuyRecordsAgree(load_trading_state(t_file))

\* The bot restarted and loaded the records of a buy it had paired.
C32_Witness ==
    /\ t_call.op = "start"
    /\ t_state.processed_buys # <<>>
    /\ DOMAIN t_state.buy_fills = Elems(t_state.processed_buys)


\* Every sell on the exchange was placed for a buy that had been filled.
SellsFollowFills ==
    \A i \in 1..Len(orders) :
        orders[i].side = "sell" =>
            /\ orders[i].for_buy \in 1..Len(orders)
            /\ orders[orders[i].for_buy].side = "buy"
            /\ orders[orders[i].for_buy].status = "closed"
            /\ orders[orders[i].for_buy].filled > 0

\* The filled sells a poll can take profit from: recorded in child_sells
\* before the poll, for a filled buy that buy_fills holds.
SellsOfRecordedPairs ==
    {s \in NewFilledSells :
        \E b \in DOMAIN t_state.child_sells :
            /\ t_state.child_sells[b] = s
            /\ b \in DOMAIN t_state.buy_fills
            /\ orders[b].status = "closed"
            /\ orders[s].for_buy = b}

\* C33: the events of a buy happen in the order OPEN, FILLED, sell created,
\* SELL_FILLED: no sell is on the exchange for a buy that was not filled, and a
\* poll adds profit to realized_profit_usd only when it records a filled sell
\* that child_sells already held for a buy found in buy_fills.
C33_LifecycleInOrder ==
    /\ []SellsFollowFills
    /\ [][(PollStep /\ t_state'.realized_profit_usd > t_state.realized_profit_usd) =>
            /\ SellsOfRecordedPairs # {}
            /\ t_state'.realized_profit_usd - t_state.realized_profit_usd
                 = SumPositive(t_state, SellsOfRecordedPairs)]_vars

\* A poll recorded the filled sell of a pair and took its profit.
C33_Witness ==
    /\ t_call.op = "poll"
    /\ t_call.recorded # {}
    /\ t_state.realized_profit_usd > 0
    /\ \E s \in t_call.recorded :
          /\ orders[s].for_buy \in DOMAIN t_state.buy_fills
          /\ t_state.child_sells[orders[s].for_buy] = s


\* C34: when the poll loop keeps running and fetch_orders and the placement
\* of sells keep succeeding, every buy that is filled with a positive amount
\* is eventually paired with a sell in child_sells, however many other orders
\* the account has on the symbol.
C34_FilledBuyIsEventuallyPaired ==
    \A b \in 1..MaxBuys :
        (orders[b].status = "closed" /\ orders[b].filled > 0)
            ~> (b \in DOMAIN t_state.child_sells)


\* ---------------------------------------------------------------------------
\* Further properties of the profit watcher (SpecWatcher)
\* ---------------------------------------------------------------------------
\* C35: in the live loop the inventory in memory and last_trade_id advance
\* together: an iteration that ends in an exception and leaves last_trade_id
\* where it was leaves the inventory as it was before the iteration, so that
\* the next poll does not match the same trades again.
C35_InventoryAdvancesWithCheckpoint ==
    [][(w_pc = "live" /\ w_call'.op = "live" /\ w_call'.raised
          /\ w_st'.last_trade_id = w_st.last_trade_id)
         => w_st'.inventory = w_st.inventory]_vars


\* ---------------------------------------------------------------------------
\* The sell order of a filled buy
\* ---------------------------------------------------------------------------
\* C36: for every tick size, the limit price of the sell created for a filled
\* buy is strictly greater than the buy's average fill price.
C36_SellPriceAboveBuyPrice ==
    grid.op = "sell_target" => grid.out > grid.average_price

\* C37: the quantity of the sell order placed for a filled buy is at most the
\* filled quantity of that buy, also when the quantity was scaled up to the
\* minimum notional.
C37_SellWithinFilledQuantity ==
    \A i \in 1..Len(orders) :
        orders[i].side = "sell" => orders[i].amount <= orders[orders[i].for_buy].filled


\* ---------------------------------------------------------------------------
\* The first buy orders (SpecGrid)
\* ---------------------------------------------------------------------------
RECURSIVE Notional(_)
Notional(placed) ==
    IF Len(placed) = 0 THEN 0
    ELSE placed[1].quantity * placed[1].price + Notional(Tail(placed))

\* The free balance that a call starts with.
BalanceAtStart == IF grid.live THEN grid.balance ELSE grid.max_cycle_usd

\* The levels of the call, and these without the ones whose placement failed.
CallLevels == FirstN(BuyLevels(BootstrapLevels, grid.current_price), MaxBootstrapOrders)
LevelsPlaced == SelectSeq(CallLevels, LAMBDA level : level \notin grid.place_fails)

\* C38: a call of bootstrap_buy_orders places at most 7 orders and none when
\* the free balance is below the estimated need (the base order size for each
\* of its levels, or the cycle budget if that is less); the notional of the orders
\* it places is in total at most max_cycle_usd and at most the free balance
\* the call started with; a failed placement neither ends the call nor uses
\* budget: the other levels get the orders they would get without it.
C38_BootstrapWithinBudget ==
    (grid.op = "bootstrap_buy_orders" /\ grid.current_price # None
       /\ ~(grid.live /\ grid.balance = None)) =>
        /\ Len(grid.out) <= 7
        /\ BalanceAtStart < Min(Len(CallLevels) * grid.base_order_usd, grid.max_cycle_usd)
             => grid.out = <<>>
        /\ Notional(grid.out) <= grid.max_cycle_usd
        /\ Notional(grid.out) <= BalanceAtStart
        /\ grid.out = bootstrap_loop(LevelsPlaced,
                          [budget_remaining |-> grid.max_cycle_usd,
                           usdt_free |-> BalanceAtStart, placed |-> <<>>],
                          grid.base_order_usd, grid.min_notional, {}).placed
             \/ grid.out = <<>>


\* ---------------------------------------------------------------------------
\* grid_engine.geom_levels (SpecGrid)
\* ---------------------------------------------------------------------------
\* C39: for lower <= upper the first element of geom_levels(lower, upper,
\* spacing_pct) is lower and the last one is upper: upper is appended when the
\* geometric sequence does not land on it.
C39_GeomLevelsEndAtUpper ==
    (grid.op = "geom_levels" /\ grid.lower <= grid.upper) =>
        /\ Len(grid.out) > 0
        /\ grid.out[1] = grid.lower
        /\ grid.out[Len(grid.out)] = grid.upper


\* ---------------------------------------------------------------------------
\* need_recenter with its default parameters (SpecRecenter)
\* ---------------------------------------------------------------------------
\* A call with the default edge_pct and no drift threshold, at the center.
DefaultCallAtCenter ==
    /\ rc.op = "need_recenter"
    /\ rc.args.edge_pct = DefaultEdgePct
    /\ rc.args.drift = None
    /\ 2 * rc.args.last_price = rc.args.lower + rc.args.upper

\* C40: with the default parameters a price at the exact center of a grid of
\* positive width is not an edge hit, and need_recenter does not return true
\* for it, however long the price stays there.
C40_CenterIsNotAnEdge ==
    DefaultCallAtCenter => (~RcHit /\ ~rc.result)

====
